---- MODULE Spec2Model ----
(***************************************************************************)
(* Model of the Juejin MCP server's tool execution engine (runTool), its   *)
(* trace recorder / trace store, the draft idempotency index (DraftFlow)   *)
(* and the fallback locator (locateWithFallback).                          *)
(*                                                                         *)
(* Three specifications share the module:                                  *)
(*   Spec        runTool calls, interleaved at their await points          *)
(*   SpecDraft   DraftFlow.createDraft calls, interleaved at their awaits  *)
(*   SpecLocate  locateWithFallback over a candidate list                  *)
(***************************************************************************)
EXTENDS Integers, Sequences, FiniteSets, TLC

VARIABLES
    \* ---- runTool (src/shared/toolRunner.ts) ----
    pc,            \* per call: position in runTool
    inp,           \* per call: definition name, schema, raw args
    thrown,        \* per call: the value the try block threw (or NoError)
    res,           \* per call: the ToolResult built (or NoResult)
    rec,           \* per call: the TraceRecorder (recordData + tracesRoot)
    obs,           \* per call: observation counters (handler runs, results, ...)
    traces,        \* TraceStore.traces: insertion-ordered sequence of records
    latestTraceId, \* TraceStore.latestTraceId
    ret,           \* the response returned last, with the call that produced it
    traceFiles,    \* the trace files on disk: traceId -> record written
    session,       \* SessionManager: context / page / session fields
    \* ---- DraftFlow.createDraft (src/flows/DraftFlow.ts) ----
    dpc,           \* per createDraft call: position
    din,           \* per createDraft call: input (title, content, format)
    dloc,          \* per createDraft call: local variables
    indexFile,     \* idempotency/drafts.json: Missing, Corrupt or an index
    page,          \* the shared page: url, navigations, drafts the editor saved
    dobs,          \* observations: side effects, writes per fingerprint
    \* ---- locateWithFallback (src/flows/browserUtils.ts) ----
    lpc,           \* position in the candidate loop
    lcands,        \* the caller's candidate list
    lvisible,      \* which candidates become visible within the timeout
    lidx,          \* index of the candidate under evaluation
    lsteps,        \* trace steps recorded by the locator
    lwaits,        \* visibility waits performed per candidate
    lresult,       \* the outcome: matched label or thrown ToolError
    \* ---- TraceStore used on its own (src/observability/TraceStore.ts) ----
    screated,      \* number of recorders createTrace has handed out
    sopen,         \* the recorder handed out and not saved yet
    sresaves,      \* number of save calls on a trace id saved before
    sread,         \* the store call made last, when it was a read: what it returned
    \* ---- createToolResult applied on its own (src/shared/result.ts) ----
    options,       \* the ResultOptions the caller passes
    made,          \* the results of the successive calls with these options
    \* ---- DraftFlow.publishDraft (src/flows/DraftFlow.ts) ----
    ppc,           \* position of the publishDraft call
    pin,           \* its input
    pfile,         \* the idempotency index file it reads
    purl,          \* the URL of the page
    pout,          \* what the call returned or threw
    pclicks,       \* the clicks and fills performed, in order
    \* ---- SessionManager (src/session/SessionManager.ts) ----
    mcontext,      \* this.context: the browser context, its cookie jar, addCookies calls
    msession,      \* this.session
    mfiles,        \* session-cookies.json of each user data directory
    mcall,         \* the SessionManager call in progress, or the last one finished
    mstats,        \* calls started, browser launches, and the last persisted list
    \* ---- LoginFlow (src/flows/LoginFlow.ts) ----
    lcall,         \* the running getSessionStatus / ensureLogin call
    ltrace,        \* steps recorded on the call's trace
    lcount,        \* calls started
    \* ---- TraceRecorder on its own (src/observability/TraceStore.ts) ----
    trec,          \* the recorder: recordData and tracesRoot
    tfile,         \* the trace file on disk
    tcall,         \* the recorder call made last
    thist,         \* calls made, completes resolved, and whether a complete has
                   \* resolved with no setTracesRoot since
    \* ---- gotoWithRetry on its own (src/flows/ArticleFlow.ts) ----
    gcall,         \* the running gotoWithRetry call
    gtrace,        \* steps recorded on the trace
    gcount,        \* calls started
    \* ---- the flows behind requireLoggedIn (DraftFlow, ArticleFlow, ...) ----
    fcall,         \* the running flow call
    findex,        \* the idempotency index: the fingerprints it holds
    fcount         \* calls started

engineVars == <<pc, inp, thrown, res, rec, obs, traces, latestTraceId, ret, traceFiles,
               session>>
draftVars  == <<dpc, din, dloc, indexFile, page, dobs>>
locVars    == <<lpc, lcands, lvisible, lidx, lsteps, lwaits, lresult>>
storeVars  == <<screated, sopen, sresaves, sread>>
resultVars == <<options, made>>
publishVars == <<ppc, pin, pfile, purl, pout, pclicks>>
managerVars == <<mcontext, msession, mfiles, mcall, mstats>>
loginVars   == <<lcall, ltrace, lcount>>
recorderVars == <<trec, tfile, tcall, thist>>
gotoVars   == <<gcall, gtrace, gcount>>
guardVars  == <<fcall, findex, fcount>>
vars       == <<engineVars, draftVars, locVars, storeVars, resultVars, publishVars,
                managerVars, loginVars, recorderVars, gotoVars, guardVars>>

None == "none"

(***************************************************************************)
(* Error taxonomy (src/shared/errorCodes.ts)                               *)
(***************************************************************************)
ToolStatus == {"success", "need_user_action", "retryable_error", "fatal_error"}

ToolCode == {"OK", "VALIDATION_ERROR", "INTERNAL_ERROR", "UNKNOWN", "NOT_LOGGED_IN",
             "CAPTCHA_REQUIRED", "SMS_RATE_LIMIT", "SELECTOR_CHANGED",
             "NAVIGATION_TIMEOUT", "PUBLISH_FAILED", "IMAGE_UPLOAD_FAILED",
             "UNSUPPORTED_IN_PHASE1"}

statusToDefaultCodeUnknown(status) == "UNKNOWN"

statusToDefaultCode(status) ==
    CASE status = "success"          -> "OK"
      [] status = "need_user_action" -> "NOT_LOGGED_IN"
      [] status = "retryable_error"  -> "UNKNOWN"
      [] status = "fatal_error"      -> "UNKNOWN"

\* The default message of a code, one distinct text per code.
codeToDefaultMessageBlank(code) == ""

codeToDefaultMessage(code) ==
    CASE code = "OK"                    -> "ok"
      [] code = "VALIDATION_ERROR"      -> "msg: request parameters failed validation"
      [] code = "INTERNAL_ERROR"        -> "msg: internal error"
      [] code = "NOT_LOGGED_IN"         -> "msg: not logged in"
      [] code = "CAPTCHA_REQUIRED"      -> "msg: captcha required"
      [] code = "SMS_RATE_LIMIT"        -> "msg: sms sent too often"
      [] code = "SELECTOR_CHANGED"      -> "msg: page structure or selector changed"
      [] code = "NAVIGATION_TIMEOUT"    -> "msg: navigation timeout"
      [] code = "PUBLISH_FAILED"        -> "msg: publish not confirmed"
      [] code = "IMAGE_UPLOAD_FAILED"   -> "msg: image upload failed"
      [] code = "UNSUPPORTED_IN_PHASE1" -> "msg: unsupported in phase 1"
      [] code = "UNKNOWN"               -> "msg: unknown error"

isErrorStatusFatalOnly(status) == status = "fatal_error"

isErrorStatus(status) == status # "success"

(***************************************************************************)
(* Result envelope (src/shared/result.ts)                                  *)
(***************************************************************************)
\* data is modelled by the set of keys the payload carries; NoData stands for an
\* absent payload (undefined), which is not the empty object.
NoData == {"undefined"}

createToolResult(traceId, status, code, message, data) ==
    LET c == IF code = None THEN statusToDefaultCode(status) ELSE code
    IN [ok      |-> ~isErrorStatus(status),
        traceId |-> traceId,
        status  |-> status,
        code    |-> c,
        message |-> IF message = None THEN codeToDefaultMessage(c) ELSE message,
        data    |-> IF data = NoData THEN {} ELSE data]

(***************************************************************************)
(* Tool definitions and their strict schemas (zod)                         *)
(***************************************************************************)
\* A schema shape maps each declared field to its type and whether it is required.
emptySchema == <<>>

testSchema == [value |-> [type |-> "string", required |-> TRUE]]

sessionInitSchema == [userDataDir |-> [type |-> "string", required |-> FALSE]]

ToolNames == {"session_init", "session_close", "test_tool", "debug_get_trace"}

SchemaOf(name) ==
    CASE name = "session_init"  -> sessionInitSchema
      [] name = "session_close" -> emptySchema
      [] name = "test_tool"     -> testSchema
      [] name = "debug_get_trace" -> emptySchema

\* Raw inputs: undefined, a non-object, or an object with typed field values.
Str(v) == [type |-> "string", v |-> v]
Num(v) == [type |-> "number", v |-> v]

Undefined == [kind |-> "undefined", fields |-> <<>>]
Scalar    == [kind |-> "scalar", fields |-> <<>>]
Obj(f)    == [kind |-> "object", fields |-> f]

RawArgs ==
    { Undefined, Scalar,
      Obj([value |-> Str("hello")]),
      Obj([value |-> Num("123")]),
      Obj([value |-> Str("hello"), extra |-> Str("x")]),
      Obj([userDataDir |-> Str("d2")]) }

\* z.object(shape).strict().parse(args ?? {}): ok iff the input is an object, with
\* no undeclared key, every required key present and every present key of its type.
StrictParseNoStrict(shape, args) ==
    LET raw == IF args.kind = "undefined" THEN Obj(<<>>) ELSE args
    IN IF /\ raw.kind = "object"
          /\ \A k \in DOMAIN shape : shape[k].required => k \in DOMAIN raw.fields
          /\ \A k \in DOMAIN raw.fields \cap DOMAIN shape :
                 raw.fields[k].type = shape[k].type
       THEN [ok |-> TRUE, value |-> raw.fields]
       ELSE [ok |-> FALSE, value |-> <<>>]

StrictParse(shape, args) ==
    LET raw == IF args.kind = "undefined" THEN Obj(<<>>) ELSE args
    IN IF /\ raw.kind = "object"
          /\ DOMAIN raw.fields \subseteq DOMAIN shape
          /\ \A k \in DOMAIN shape : shape[k].required => k \in DOMAIN raw.fields
          /\ \A k \in DOMAIN raw.fields : raw.fields[k].type = shape[k].type
       THEN [ok |-> TRUE, value |-> raw.fields]
       ELSE [ok |-> FALSE, value |-> <<>>]

(***************************************************************************)
(* Thrown values and handler outputs                                       *)
(***************************************************************************)
NoError  == [kind |-> "none", status |-> None, code |-> None]
ZodError == [kind |-> "ZodError", status |-> None, code |-> None]
OtherError == [kind |-> "Error", status |-> None, code |-> None]
ToolError(status, code) == [kind |-> "ToolError", status |-> status, code |-> code]

\* The ToolErrors a handler of the model may throw (severity, code).
HandlerToolErrors ==
    { ToolError("need_user_action", "CAPTCHA_REQUIRED"),
      ToolError("fatal_error", "SELECTOR_CHANGED"),
      ToolError("retryable_error", "NAVIGATION_TIMEOUT"),
      ToolError("need_user_action", "SELECTOR_CHANGED"),
      ToolError("retryable_error", "PUBLISH_FAILED") }

HandlerThrows == HandlerToolErrors \cup {ZodError, OtherError}

\* ToolHandlerOutput: optional status / code / message, data as its key set.
Output(status, code, message, data) ==
    [status |-> status, code |-> code, message |-> message, data |-> data]

HandlerOutputs ==
    { Output(None, None, None, NoData),
      Output("success", "OK", None, {"payload"}),
      Output("need_user_action", "NOT_LOGGED_IN", "handler message", {"payload"}),
      Output("fatal_error", None, None, NoData) }

NoResult == [ok |-> FALSE, traceId |-> None, status |-> None, code |-> None,
             message |-> None, data |-> {}]

(***************************************************************************)
(* runTool helpers (src/shared/toolRunner.ts)                              *)
(***************************************************************************)
normalizeOutput(traceId, output) ==
    createToolResult(traceId,
                     IF output.status = None THEN "success" ELSE output.status,
                     output.code, output.message, output.data)

shouldCaptureArtifactsAnyCode(error) == TRUE

shouldCaptureArtifacts(error) ==
    error.code = "SELECTOR_CHANGED" \/ error.code = "NAVIGATION_TIMEOUT"

\* The ToolError branch of toFailureResult, with the artifacts already collected.
toolErrorResultAsFatal(traceId, error, artifacts) ==
    createToolResult(traceId, "fatal_error", error.code,
                     codeToDefaultMessage(error.code), artifacts)

toolErrorResult(traceId, error, artifacts) ==
    createToolResult(traceId, error.status, error.code,
                     codeToDefaultMessage(error.code), artifacts)

\* The two other branches of toFailureResult.
otherFailureResultInternal(traceId, error) ==
    IF error.kind = "ZodError"
    THEN createToolResult(traceId, "fatal_error", "VALIDATION_ERROR",
                          "msg: request parameters failed validation", {"details"})
    ELSE createToolResult(traceId, "retryable_error", "INTERNAL_ERROR", "error message", {})

otherFailureResult(traceId, error) ==
    IF error.kind = "ZodError"
    THEN createToolResult(traceId, "fatal_error", "VALIDATION_ERROR",
                          "msg: request parameters failed validation", {"details"})
    ELSE createToolResult(traceId, "fatal_error", "UNKNOWN", "error message", {"cause"})


(***************************************************************************)
(* Bounds and program constants                                            *)
(***************************************************************************)
MaxCalls == 2

MAX_IN_MEMORY_TRACES == 50

Calls == 1..MaxCalls

\* randomUUID() as a variant that hands every call the same identifier.
TraceIdShared(c) == "trace-0"

\* randomUUID(): a fresh identifier per call.
TraceIdOf(c) == "trace-" \o ToString(c)

defaultUserDataDir == "d1"

(***************************************************************************)
(* SessionManager state read by the engine (src/session/SessionManager.ts) *)
(***************************************************************************)
NoSession == [context |-> FALSE, dir |-> None]

isInitialized(s) == s.context /\ s.dir # None

getUserDataDir(s) == s.dir

\* join(userDataDir, "traces")
TracesDirOf(dir) == dir \o "/traces"

getTraceDir(s) == IF getUserDataDir(s) = None THEN None ELSE TracesDirOf(getUserDataDir(s))

(***************************************************************************)
(* TraceRecorder / TraceStore (src/observability/TraceStore.ts)            *)
(***************************************************************************)
Step(action, target, note) == [action |-> action, target |-> target, note |-> note]

\* TraceRecord: recordData of a recorder (timestamps reduced to `finished`).
NoRecord == [traceId |-> None, toolName |-> None, finished |-> FALSE, status |-> None,
             code |-> None, message |-> None, steps |-> <<>>, filePath |-> None]

\* new TraceRecorder(traceId, toolName, tracesRoot)
NewRecorder(traceId, toolName, tracesRoot) ==
    [data |-> [NoRecord EXCEPT !.traceId = traceId, !.toolName = toolName],
     tracesRoot |-> tracesRoot,
     saved |-> NoRecord]

NoRecorder == [data |-> NoRecord, tracesRoot |-> None, saved |-> NoRecord]

\* TraceRecorder.record as a variant that puts the new step first.
recordAtFront(r, action, target, note) ==
    [r EXCEPT !.data.steps = <<Step(action, target, note)>> \o @]

\* TraceRecorder.record
record(r, action, target, note) ==
    [r EXCEPT !.data.steps = Append(@, Step(action, target, note))]

\* TraceRecorder.setTracesRoot
setTracesRoot(r, root) == [r EXCEPT !.tracesRoot = root]

\* TraceRecorder.snapshot: a copy of recordData
snapshot(r) == r.data

\* TraceRecorder.complete as a variant that also records a closing step.
completeFieldsWithStep(r, result) ==
    [r EXCEPT !.data.finished = TRUE, !.data.status = result.status,
              !.data.code = result.code, !.data.message = result.message,
              !.data.steps = Append(@, Step("trace.complete", r.data.traceId, ""))]

\* TraceRecorder.complete, up to its first await: the outcome fields are set.
completeFields(r, result) ==
    [r EXCEPT !.data.finished = TRUE, !.data.status = result.status,
              !.data.code = result.code, !.data.message = result.message]

TraceFilePathShared(root, traceId) == root \o "/trace.json"

\* join(tracesRoot, traceId + ".json")
TraceFilePath(root, traceId) == root \o "/" \o traceId \o ".json"

\* TraceStore.createTrace: a recorder with the synthetic start step.
createTrace(traceId, toolName, tracesRoot) ==
    record(NewRecorder(traceId, toolName, tracesRoot),
           "tool.start", toolName, "tool execution started")

IndexOfTrace(seq, traceId) ==
    IF \E i \in 1..Len(seq) : seq[i].traceId = traceId
    THEN CHOOSE i \in 1..Len(seq) : seq[i].traceId = traceId
    ELSE Len(seq) + 1

\* Map.set as delete-then-set: an existing key moves to the end.
MapSetMovingToEnd(seq, r) ==
    Append(SelectSeq(seq, LAMBDA x : x.traceId # r.traceId), r)

\* Map.set: replace in place when the key exists, append otherwise.
MapSet(seq, r) ==
    LET i == IndexOfTrace(seq, r.traceId)
    IN IF i <= Len(seq) THEN [seq EXCEPT ![i] = r] ELSE Append(seq, r)

storeSaveDropsNewest(seq, r) ==
    LET put == MapSet(seq, r)
    IN IF Len(put) <= MAX_IN_MEMORY_TRACES THEN put ELSE SubSeq(put, 1, Len(put) - 1)

\* TraceStore.getLatest: the stored record whose key is latestTraceId, or
\* NoRecord for undefined (no latestTraceId, or no record under that key).
getLatest(seq, latest) ==
    IF latest # None /\ IndexOfTrace(seq, latest) <= Len(seq)
    THEN seq[IndexOfTrace(seq, latest)]
    ELSE NoRecord

\* TraceStore.getByTraceId: Map.get, NoRecord for undefined.
getByTraceId(seq, traceId) ==
    IF IndexOfTrace(seq, traceId) <= Len(seq)
    THEN seq[IndexOfTrace(seq, traceId)]
    ELSE NoRecord

\* The debug_get_trace handler: steps = latest?.steps ?? [].
debugGetTraceSteps(seq, latest) ==
    IF getLatest(seq, latest) = NoRecord THEN <<>> ELSE getLatest(seq, latest).steps

\* TraceStore.save: set, then drop the first key when the size exceeds the cap.
storeSave(seq, r) ==
    LET put == MapSet(seq, r)
    IN IF Len(put) <= MAX_IN_MEMORY_TRACES THEN put ELSE Tail(put)

(***************************************************************************)
(* Observations kept per call (not program state)                          *)
(***************************************************************************)
NoObs == [handlerRuns |-> 0, results |-> 0, completes |-> 0, saves |-> 0,
          rejectedInput |-> FALSE, initAtCatch |-> FALSE,
          captureAttempted |-> FALSE, shotTried |-> FALSE, htmlTried |-> FALSE,
          shot |-> FALSE, captureFailed |-> FALSE, root |-> None,
          readLatest |-> FALSE, lastSaved |-> NoRecord, steps |-> <<>>,
          handlerReturned |-> FALSE, outStatus |-> None, outCode |-> None]

\* The handler returned `out`: what it chose for status and code is noted.
NoteOutput(o, out) ==
    [o EXCEPT !.results = @ + 1, !.handlerReturned = TRUE,
              !.outStatus = out.status, !.outCode = out.code]


(***************************************************************************)
(* runTool (src/shared/toolRunner.ts). A call runs without interruption    *)
(* from one await on I/O to the next, so there is one action per such      *)
(* segment; the locals of a call are dropped when it returns or rejects,   *)
(* and `ret` keeps the response handed to the transport last, with what    *)
(* led to it.                                                              *)
(***************************************************************************)
UnchangedDraft == UNCHANGED draftVars
UnchangedLoc   == UNCHANGED locVars
UnchangedStore == UNCHANGED storeVars

UnchangedResult == UNCHANGED resultVars

UnchangedPublish == UNCHANGED publishVars

UnchangedManager == UNCHANGED managerVars
UnchangedLogin == UNCHANGED loginVars
UnchangedRecorder == UNCHANGED recorderVars
UnchangedGoto == UNCHANGED gotoVars
UnchangedGuard == UNCHANGED guardVars

NoInput == [name |-> None, args |-> Undefined]

NoRet == [call |-> 0, name |-> None, args |-> Undefined, thrown |-> NoError,
          result |-> NoResult, transport |-> [keys |-> {}, isError |-> FALSE],
          obs |-> NoObs, saved |-> NoRecord]

transportResponseAlwaysFlagged(result) ==
    [keys |-> {"isError", "content"}, isError |-> ~result.ok]

\* Lines 188-196: {...(result.ok ? {} : {isError: true}), content: [...]}; the
\* response as the keys it has and the value of isError where it has one.
transportResponse(result) ==
    [keys    |-> IF result.ok THEN {"content"} ELSE {"isError", "content"},
     isError |-> ~result.ok]

Response(c, name, args, err, result, o, saved) ==
    [call |-> c, name |-> name, args |-> args, thrown |-> err, result |-> result,
     transport |-> transportResponse(result), obs |-> o, saved |-> saved]

DropLocals(c) ==
    /\ inp' = [inp EXCEPT ![c] = NoInput]
    /\ thrown' = [thrown EXCEPT ![c] = NoError]
    /\ res' = [res EXCEPT ![c] = NoResult]
    /\ rec' = [rec EXCEPT ![c] = NoRecorder]
    /\ obs' = [obs EXCEPT ![c] = NoObs]

\* Lines 186-196: TraceStore.save(saved) and the return of the response.
SaveAndReturn(c, name, args, err, result, o, saved) ==
    /\ traces' = storeSave(traces, saved)
    /\ latestTraceId' = saved.traceId
    /\ ret' = Response(c, name, args, err, result, [o EXCEPT !.saves = @ + 1], saved)
    /\ pc' = [pc EXCEPT ![c] = "returned"]
    /\ DropLocals(c)

\* Lines 180-185: the terminal step and complete(). With a traces root complete()
\* awaits mkdir / writeFile; with none it returns the snapshot at once and the
\* call goes on to save and return. `latest` is TraceStore.latestTraceId as the
\* segment left it so far.
Finish(c, name, args, err, r, result, o, latest) ==
    LET r1 == completeFields(
                  record(r, "tool.end", name, result.status \o ":" \o result.code),
                  result)
        o1 == [o EXCEPT !.completes = @ + 1, !.root = r1.tracesRoot]
    IN IF r1.tracesRoot # None
       THEN /\ inp' = [inp EXCEPT ![c] = [name |-> name, args |-> args]]
            /\ thrown' = [thrown EXCEPT ![c] = err]
            /\ res' = [res EXCEPT ![c] = result]
            /\ rec' = [rec EXCEPT ![c] = r1]
            /\ obs' = [obs EXCEPT ![c] = o1]
            /\ pc' = [pc EXCEPT ![c] = "writing"]
            /\ latestTraceId' = latest
            /\ UNCHANGED <<traces, ret>>
       ELSE SaveAndReturn(c, name, args, err, result, o1, snapshot(r1))

\* toFailureResult (73-120) for everything but a ToolError that triggers capture.
FailWith(c, name, args, err, r, o, latest) ==
    LET result == IF err.kind = "ToolError"
                  THEN toolErrorResult(TraceIdOf(c), err, {})
                  ELSE otherFailureResult(TraceIdOf(c), err)
    IN Finish(c, name, args, err, r, result, [o EXCEPT !.results = @ + 1], latest)

\* The catch block (163-164): toFailureResult and the gates of
\* captureFailureArtifacts (38-47); past the gates the page is awaited.
Catch(c, name, args, err, r, o, latest) ==
    LET o1 == [o EXCEPT !.initAtCatch = isInitialized(session)]
    IN IF /\ err.kind = "ToolError"
          /\ shouldCaptureArtifacts(err)
          /\ isInitialized(session)
          /\ getUserDataDir(session) # None
       THEN /\ inp' = [inp EXCEPT ![c] = [name |-> name, args |-> args]]
            /\ thrown' = [thrown EXCEPT ![c] = err]
            /\ rec' = [rec EXCEPT ![c] = r]
            /\ obs' = [obs EXCEPT ![c] = [o1 EXCEPT !.captureAttempted = TRUE]]
            /\ pc' = [pc EXCEPT ![c] = "cap_page"]
            /\ latestTraceId' = latest
            /\ UNCHANGED <<res, traces, ret>>
       ELSE FailWith(c, name, args, err, r, o1, latest)

\* Lines 134-160: trace id, recorder, strict parse, traces-root override for
\* session_init, and the invocation of the handler.
Start(c, name, args) ==
    /\ pc[c] = "idle"
    /\ \A d \in Calls : d < c => pc[d] # "idle"
    /\ LET traceId == TraceIdOf(c)
           r0      == createTrace(traceId, name, getTraceDir(session))
           parsed  == StrictParse(SchemaOf(name), args)
           r1      == IF /\ name = "session_init"
                         /\ "userDataDir" \in DOMAIN parsed.value
                         /\ parsed.value["userDataDir"].type = "string"
                         /\ parsed.value["userDataDir"].v # ""
                      THEN setTracesRoot(r0, TracesDirOf(parsed.value["userDataDir"].v))
                      ELSE r0
       IN IF parsed.ok
          THEN IF name = "debug_get_trace"
               THEN \* the handler is synchronous: it has read the store, with
                    \* latestTraceId as createTrace left it, before any await
                    LET steps == debugGetTraceSteps(traces, traceId)
                        lastSaved == IF traces = <<>> THEN NoRecord
                                     ELSE traces[Len(traces)]
                        out   == Output(None, None, None, {"steps"})
                    IN Finish(c, name, args, NoError, r1,
                              normalizeOutput(traceId, out),
                              NoteOutput([NoObs EXCEPT !.handlerRuns = 1,
                                                       !.readLatest = TRUE,
                                                       !.lastSaved = lastSaved,
                                                       !.steps = steps], out),
                              traceId)
               ELSE /\ inp' = [inp EXCEPT ![c] = [name |-> name, args |-> args]]
                    /\ rec' = [rec EXCEPT ![c] = r1]
                    /\ pc' = [pc EXCEPT ![c] = "handler"]
                    /\ obs' = [obs EXCEPT ![c].handlerRuns = @ + 1]
                    /\ latestTraceId' = traceId
                    /\ UNCHANGED <<thrown, res, traces, ret>>
          ELSE Catch(c, name, args, ZodError, r0,
                     [NoObs EXCEPT !.rejectedInput = TRUE], traceId)
    /\ UNCHANGED <<traceFiles, session>>
    /\ UnchangedDraft /\ UnchangedLoc /\ UnchangedStore /\ UnchangedResult /\ UnchangedPublish /\ UnchangedManager /\ UnchangedLogin /\ UnchangedRecorder /\ UnchangedGoto /\ UnchangedGuard

\* A handler that returns an output: lines 156-162, then 180 onwards.
HandlerReturn(c, out) ==
    /\ pc[c] = "handler"
    /\ inp[c].name = "test_tool"
    /\ Finish(c, inp[c].name, inp[c].args, NoError, rec[c],
              normalizeOutput(TraceIdOf(c), out),
              NoteOutput(obs[c], out), latestTraceId)
    /\ UNCHANGED <<traceFiles, session>>
    /\ UnchangedDraft /\ UnchangedLoc /\ UnchangedStore /\ UnchangedResult /\ UnchangedPublish /\ UnchangedManager /\ UnchangedLogin /\ UnchangedRecorder /\ UnchangedGoto /\ UnchangedGuard

\* A handler that throws: the catch block runs (line 163).
HandlerThrow(c, err) ==
    /\ pc[c] = "handler"
    /\ inp[c].name = "test_tool"
    /\ Catch(c, inp[c].name, inp[c].args, err, rec[c], obs[c], latestTraceId)
    /\ UNCHANGED <<traceFiles, session>>
    /\ UnchangedDraft /\ UnchangedLoc /\ UnchangedStore /\ UnchangedResult /\ UnchangedPublish /\ UnchangedManager /\ UnchangedLogin /\ UnchangedRecorder /\ UnchangedGoto /\ UnchangedGuard

\* Line 47: getPage().catch(() => undefined); no page gives no artifacts.
CapPage(c, pageOk) ==
    /\ pc[c] = "cap_page"
    /\ IF pageOk
       THEN /\ pc' = [pc EXCEPT ![c] = "cap_shot"]
            /\ UNCHANGED <<inp, thrown, res, rec, obs, traces, latestTraceId, ret>>
       ELSE FailWith(c, inp[c].name, inp[c].args, thrown[c], rec[c],
                     [obs[c] EXCEPT !.captureFailed = TRUE], latestTraceId)
    /\ UNCHANGED <<traceFiles, session>>
    /\ UnchangedDraft /\ UnchangedLoc /\ UnchangedStore /\ UnchangedResult /\ UnchangedPublish /\ UnchangedManager /\ UnchangedLogin /\ UnchangedRecorder /\ UnchangedGoto /\ UnchangedGuard

\* Lines 52-54: captureScreenshot(...).catch(() => undefined)
CapShot(c, shotOk) ==
    /\ pc[c] = "cap_shot"
    /\ pc' = [pc EXCEPT ![c] = "cap_html"]
    /\ obs' = [obs EXCEPT ![c].shotTried = TRUE, ![c].shot = shotOk,
                          ![c].captureFailed = @ \/ ~shotOk]
    /\ UNCHANGED <<inp, thrown, res, rec, traces, latestTraceId, ret, traceFiles, session>>
    /\ UnchangedDraft /\ UnchangedLoc /\ UnchangedStore /\ UnchangedResult /\ UnchangedPublish /\ UnchangedManager /\ UnchangedLogin /\ UnchangedRecorder /\ UnchangedGoto /\ UnchangedGuard

\* Lines 56-70 and 87-96: the HTML dump, the artifact steps, the result; then
\* line 165 onwards.
CapHtml(c, htmlOk) ==
    /\ pc[c] = "cap_html"
    /\ LET r1 == IF obs[c].shot
                 THEN record(rec[c], "artifact.screenshot", "screenshot.png", "captured on error")
                 ELSE rec[c]
           r2 == IF htmlOk
                 THEN record(r1, "artifact.html", "page.html", "captured on error")
                 ELSE r1
           artifacts == (IF obs[c].shot THEN {"screenshotPath"} ELSE {})
                        \cup (IF htmlOk THEN {"htmlPath"} ELSE {})
       IN Finish(c, inp[c].name, inp[c].args, thrown[c], r2,
                 toolErrorResult(TraceIdOf(c), thrown[c], artifacts),
                 [obs[c] EXCEPT !.results = @ + 1, !.htmlTried = TRUE,
                                !.captureFailed = @ \/ ~htmlOk],
                 latestTraceId)
    /\ UNCHANGED <<traceFiles, session>>
    /\ UnchangedDraft /\ UnchangedLoc /\ UnchangedStore /\ UnchangedResult /\ UnchangedPublish /\ UnchangedManager /\ UnchangedLogin /\ UnchangedRecorder /\ UnchangedGoto /\ UnchangedGuard

\* TraceRecorder.complete, lines 522-529 of the recorder: mkdir and writeFile.
\* A failure of either rejects complete(), which runTool awaits outside its
\* try: the call rejects, nothing is saved and no response is returned.
WriteTrace(c, ioOk) ==
    /\ pc[c] = "writing"
    /\ IF ioOk
       THEN LET path == TraceFilePath(rec[c].tracesRoot, rec[c].data.traceId)
                r1   == [rec[c] EXCEPT !.data.filePath = path]
            IN /\ traceFiles' = [traceFiles EXCEPT ![c] =
                                    [path |-> path, record |-> rec[c].data,
                                     writes |-> @.writes + 1]]
               /\ SaveAndReturn(c, inp[c].name, inp[c].args, thrown[c], res[c],
                                obs[c], snapshot(r1))
       ELSE /\ pc' = [pc EXCEPT ![c] = "rejected"]
            /\ DropLocals(c)
            /\ UNCHANGED <<traces, latestTraceId, ret, traceFiles>>
    /\ UNCHANGED session
    /\ UnchangedDraft /\ UnchangedLoc /\ UnchangedStore /\ UnchangedResult /\ UnchangedPublish /\ UnchangedManager /\ UnchangedLogin /\ UnchangedRecorder /\ UnchangedGoto /\ UnchangedGuard

(***************************************************************************)
(* The session handlers (src/tools/handlers/sessionHandlers.ts) and        *)
(* SessionManager.init / close                                             *)
(***************************************************************************)
\* mergedInput.userDataDir = input.userDataDir ?? config.defaultUserDataDir
MergedUserDataDir(c) ==
    IF "userDataDir" \in DOMAIN inp[c].args.fields
    THEN inp[c].args.fields["userDataDir"].v
    ELSE defaultUserDataDir

\* isSameSession, on the parameter the model varies (userDataDir).
isSameSession(s, dir) == s.dir # None /\ s.dir = dir

\* An I/O failure inside a handler: an Error that is no ToolError.
HandlerFails(c) ==
    Catch(c, inp[c].name, inp[c].args, OtherError, rec[c], obs[c], latestTraceId)

\* session_close: SessionManager.close() (402-415), then the handler's return.
CloseHandler(c) ==
    /\ pc[c] = "handler"
    /\ inp[c].name = "session_close"
    /\ session' = NoSession
    /\ Finish(c, inp[c].name, inp[c].args, NoError,
              record(rec[c], "session.close", "global", "session closed"),
              normalizeOutput(TraceIdOf(c), Output(None, None, None, {"closed"})),
              NoteOutput(obs[c], Output(None, None, None, {"closed"})), latestTraceId)
    /\ UNCHANGED traceFiles
    /\ UnchangedDraft /\ UnchangedLoc /\ UnchangedStore /\ UnchangedResult /\ UnchangedPublish /\ UnchangedManager /\ UnchangedLogin /\ UnchangedRecorder /\ UnchangedGoto /\ UnchangedGuard

\* The return of the session_init handler (49-58).
InitReturns(c, dir) ==
    Finish(c, inp[c].name, inp[c].args, NoError,
           record(rec[c], "session.init", dir, "global"),
           normalizeOutput(TraceIdOf(c),
               Output(None, None, "session initialized",
                      {"sessionId", "headless", "userDataDir"})),
           NoteOutput(obs[c], Output(None, None, "session initialized",
                                     {"sessionId", "headless", "userDataDir"})),
           latestTraceId)

StaysInHandler(c, at) ==
    /\ pc' = [pc EXCEPT ![c] = at]
    /\ UNCHANGED <<inp, thrown, res, rec, obs, traces, latestTraceId, ret>>

\* init 340-346: mkdir of the user data dir, the same-session shortcut, else close().
InitBegin(c, ioOk) ==
    /\ pc[c] = "handler"
    /\ inp[c].name = "session_init"
    /\ IF ~ioOk
       THEN HandlerFails(c)
       ELSE IF session.context /\ isSameSession(session, MergedUserDataDir(c))
            THEN InitReturns(c, session.dir)
            ELSE StaysInHandler(c, "init_close")
    /\ UNCHANGED <<session, traceFiles>>
    /\ UnchangedDraft /\ UnchangedLoc /\ UnchangedStore /\ UnchangedResult /\ UnchangedPublish /\ UnchangedManager /\ UnchangedLogin /\ UnchangedRecorder /\ UnchangedGoto /\ UnchangedGuard

\* init 346-360: close() has cleared context and session; the launch is awaited.
InitClose(c) ==
    /\ pc[c] = "init_close"
    /\ session' = NoSession
    /\ StaysInHandler(c, "init_launch")
    /\ UNCHANGED traceFiles
    /\ UnchangedDraft /\ UnchangedLoc /\ UnchangedStore /\ UnchangedResult /\ UnchangedPublish /\ UnchangedManager /\ UnchangedLogin /\ UnchangedRecorder /\ UnchangedGoto /\ UnchangedGuard

\* init 357-375: the launched context is stored; with a page at hand the session
\* is set in the same segment, otherwise newPage() is awaited first.
InitLaunch(c, launchOk, hasPage) ==
    /\ pc[c] = "init_launch"
    /\ IF ~launchOk
       THEN HandlerFails(c) /\ UNCHANGED session
       ELSE /\ session' = [context |-> TRUE,
                           dir |-> IF hasPage THEN MergedUserDataDir(c) ELSE session.dir]
            /\ StaysInHandler(c, IF hasPage THEN "init_dirs" ELSE "init_page")
    /\ UNCHANGED traceFiles
    /\ UnchangedDraft /\ UnchangedLoc /\ UnchangedStore /\ UnchangedResult /\ UnchangedPublish /\ UnchangedManager /\ UnchangedLogin /\ UnchangedRecorder /\ UnchangedGoto /\ UnchangedGuard

\* init 366-375: newPage() resolved or failed.
InitPage(c, pageOk) ==
    /\ pc[c] = "init_page"
    /\ IF ~pageOk
       THEN HandlerFails(c) /\ UNCHANGED session
       ELSE /\ session' = [session EXCEPT !.dir = MergedUserDataDir(c)]
            /\ StaysInHandler(c, "init_dirs")
    /\ UNCHANGED traceFiles
    /\ UnchangedDraft /\ UnchangedLoc /\ UnchangedStore /\ UnchangedResult /\ UnchangedPublish /\ UnchangedManager /\ UnchangedLogin /\ UnchangedRecorder /\ UnchangedGoto /\ UnchangedGuard

\* init 377-382: the three mkdir calls and the cookie restore, then the return.
InitDirs(c, ioOk) ==
    /\ pc[c] = "init_dirs"
    /\ IF ~ioOk
       THEN HandlerFails(c)
       ELSE InitReturns(c, MergedUserDataDir(c))
    /\ UNCHANGED <<session, traceFiles>>
    /\ UnchangedDraft /\ UnchangedLoc /\ UnchangedStore /\ UnchangedResult /\ UnchangedPublish /\ UnchangedManager /\ UnchangedLogin /\ UnchangedRecorder /\ UnchangedGoto /\ UnchangedGuard

(***************************************************************************)
(* Specification of the engine                                             *)
(***************************************************************************)
NoFile == [path |-> None, record |-> NoRecord, writes |-> 0]

EngineInit ==
    /\ pc = [c \in Calls |-> "idle"]
    /\ inp = [c \in Calls |-> NoInput]
    /\ thrown = [c \in Calls |-> NoError]
    /\ res = [c \in Calls |-> NoResult]
    /\ rec = [c \in Calls |-> NoRecorder]
    /\ obs = [c \in Calls |-> NoObs]
    /\ traces = <<>>
    /\ latestTraceId = None
    /\ ret = NoRet
    /\ traceFiles = [c \in Calls |-> NoFile]
    /\ session = NoSession

DraftIdle ==
    /\ dpc = <<>>
    /\ din = <<>>
    /\ dloc = <<>>
    /\ indexFile = [state |-> "missing", index |-> {}]
    /\ page = [url |-> <<>>, gotoCount |-> 0, saves |-> 0]
    /\ dobs = [navigated |-> {}, filled |-> {}, clicked |-> {}, writes |-> <<>>,
               overlapped |-> FALSE]

LocIdle ==
    /\ lpc = "unused"
    /\ lcands = <<>>
    /\ lvisible = {}
    /\ lidx = 0
    /\ lsteps = <<>>
    /\ lwaits = <<>>
    /\ lresult = [kind |-> "none", matched |-> None, index |-> 0, error |-> NoError]

NoRead == [op |-> None, traceId |-> None, result |-> NoRecord]

StoreIdle ==
    /\ screated = 0
    /\ sopen = NoRecorder
    /\ sresaves = 0
    /\ sread = NoRead

NoOptions == [traceId |-> None, status |-> None, code |-> None, message |-> None,
              data |-> NoData]

ResultIdle ==
    /\ options = NoOptions
    /\ made = <<>>

ManagerIdle ==
    /\ mcontext = <<>>
    /\ msession = <<>>
    /\ mfiles = <<>>
    /\ mcall = <<>>
    /\ mstats = <<>>

GuardIdle ==
    /\ fcall = <<>>
    /\ findex = {}
    /\ fcount = 0

GotoIdle ==
    /\ gcall = <<>>
    /\ gtrace = <<>>
    /\ gcount = 0

RecorderIdle ==
    /\ trec = <<>>
    /\ tfile = <<>>
    /\ tcall = <<>>
    /\ thist = <<>>

LoginIdle ==
    /\ lcall = <<>>
    /\ ltrace = <<>>
    /\ lcount = 0

PublishIdle ==
    /\ ppc = "unused"
    /\ pin = <<>>
    /\ pfile = [state |-> "missing", index |-> {}]
    /\ purl = <<>>
    /\ pout = [kind |-> "none", articleId |-> None, articleUrl |-> <<>>, error |-> NoError]
    /\ pclicks = <<>>

Init == EngineInit /\ DraftIdle /\ LocIdle /\ StoreIdle /\ ResultIdle /\ PublishIdle /\ ManagerIdle /\ LoginIdle /\ RecorderIdle /\ GotoIdle /\ GuardIdle

Next ==
    \/ \E c \in Calls, name \in ToolNames, args \in RawArgs : Start(c, name, args)
    \/ \E c \in Calls, out \in HandlerOutputs : HandlerReturn(c, out)
    \/ \E c \in Calls, err \in HandlerThrows : HandlerThrow(c, err)
    \/ \E c \in Calls : CloseHandler(c)
    \/ \E c \in Calls, ioOk \in BOOLEAN : InitBegin(c, ioOk)
    \/ \E c \in Calls : InitClose(c)
    \/ \E c \in Calls, launchOk \in BOOLEAN, hasPage \in BOOLEAN : InitLaunch(c, launchOk, hasPage)
    \/ \E c \in Calls, pageOk \in BOOLEAN : InitPage(c, pageOk)
    \/ \E c \in Calls, ioOk \in BOOLEAN : InitDirs(c, ioOk)
    \/ \E c \in Calls, pageOk \in BOOLEAN : CapPage(c, pageOk)
    \/ \E c \in Calls, shotOk \in BOOLEAN : CapShot(c, shotOk)
    \/ \E c \in Calls, htmlOk \in BOOLEAN : CapHtml(c, htmlOk)
    \/ \E c \in Calls, ioOk \in BOOLEAN : WriteTrace(c, ioOk)
Spec == Init /\ [][Next]_vars

(***************************************************************************)
(* Properties of the engine (specification Spec)                           *)
(***************************************************************************)
\* The results the engine has produced: the one of the response returned last
\* and the ones calls in flight have built.
ReturnedOne == ret.call # 0

Built(c) == res[c] # NoResult

\* An input a strict schema rejects: not an object, a field of the wrong type,
\* a required field missing, or a field the schema does not declare.
SchemaRejects(name, args) ==
    LET shape == SchemaOf(name)
        f     == args.fields
    IN \/ args.kind = "scalar"
       \/ \E k \in DOMAIN f \cap DOMAIN shape : f[k].type # shape[k].type
       \/ \E k \in DOMAIN shape : shape[k].required /\ k \notin DOMAIN f
       \/ \E k \in DOMAIN f : k \notin DOMAIN shape

IsValidationFailure(result) ==
    /\ result.ok = FALSE
    /\ result.status = "fatal_error"
    /\ result.code = "VALIDATION_ERROR"

\* C1: a call whose input the tool's strict schema rejects (wrong type, missing
\* required field, undeclared extra field) gets a result with ok = false, status
\* fatal_error and code VALIDATION_ERROR, and its handler is never run.
C1_RejectedInputIsValidationError ==
    /\ (ReturnedOne /\ SchemaRejects(ret.name, ret.args))
          => IsValidationFailure(ret.result) /\ ret.obs.handlerRuns = 0
    /\ \A c \in Calls :
          /\ (pc[c] # "idle" /\ inp[c].name # None /\ SchemaRejects(inp[c].name, inp[c].args))
                => obs[c].handlerRuns = 0
          /\ (Built(c) /\ SchemaRejects(inp[c].name, inp[c].args))
                => IsValidationFailure(res[c])

\* C1 witness: a call with an undeclared extra field has returned VALIDATION_ERROR.
C1_Witness ==
    /\ ReturnedOne
    /\ ret.name = "test_tool"
    /\ "extra" \in DOMAIN ret.args.fields
    /\ IsValidationFailure(ret.result)

\* C2: every call that has ended has returned a result (it has not rejected),
\* having built exactly one result, completed its trace exactly once and saved
\* it to the store exactly once.
C2_EveryCallReturnsOneResult ==
    /\ \A c \in Calls : pc[c] # "rejected"
    /\ ReturnedOne =>
          /\ ret.obs.results = 1
          /\ ret.obs.completes = 1
          /\ ret.obs.saves = 1

\* C3: a ToolError thrown with severity s and code c yields a result with exactly
\* status s and code c.
C3_ToolErrorKeepsSeverityAndCode ==
    /\ (ReturnedOne /\ ret.thrown.kind = "ToolError")
          => /\ ret.result.status = ret.thrown.status
             /\ ret.result.code = ret.thrown.code
    /\ \A c \in Calls :
          (Built(c) /\ thrown[c].kind = "ToolError")
             => /\ res[c].status = thrown[c].status
                /\ res[c].code = thrown[c].code

\* C3 witness: a need_user_action ToolError carrying SELECTOR_CHANGED came back
\* as need_user_action / SELECTOR_CHANGED.
C3_Witness ==
    /\ ReturnedOne
    /\ ret.thrown = ToolError("need_user_action", "SELECTOR_CHANGED")
    /\ ret.result.status = "need_user_action"
    /\ ret.result.code = "SELECTOR_CHANGED"

\* C4: in every result the engine produces, ok is true exactly when status is
\* success, also when the status was chosen by a handler that returned normally.
C4_OkIffSuccess ==
    /\ ReturnedOne => (ret.result.ok <=> ret.result.status = "success")
    /\ \A c \in Calls : Built(c) => (res[c].ok <=> res[c].status = "success")

\* C4 witness: a handler returned need_user_action without throwing and the
\* result has ok = false.
C4_Witness ==
    /\ ReturnedOne
    /\ ret.thrown = NoError
    /\ ret.result.status = "need_user_action"
    /\ ret.result.ok = FALSE

CaptureCodes == {"SELECTOR_CHANGED", "NAVIGATION_TIMEOUT"}

\* C10: diagnostics capture is attempted exactly when the handler threw a
\* ToolError whose code is SELECTOR_CHANGED or NAVIGATION_TIMEOUT while a session
\* was initialised; never for another code, a validation failure or an
\* unexpected exception.
C10_CaptureOnlyForSelectorOrNavigation ==
    /\ ReturnedOne =>
          (ret.obs.captureAttempted <=>
              /\ ret.thrown.kind = "ToolError"
              /\ ret.thrown.code \in CaptureCodes
              /\ ret.obs.initAtCatch)
    /\ \A c \in Calls :
          obs[c].captureAttempted =>
              /\ thrown[c].kind = "ToolError"
              /\ thrown[c].code \in CaptureCodes
              /\ obs[c].initAtCatch

\* C10 witness: a NAVIGATION_TIMEOUT ToolError under an initialised session had
\* its capture attempted, and the call returned.
C10_Witness ==
    /\ ReturnedOne
    /\ ret.thrown.kind = "ToolError"
    /\ ret.thrown.code = "NAVIGATION_TIMEOUT"
    /\ ret.obs.captureAttempted


\* C11: when diagnostics capture was triggered and a capture step failed (no
\* page, screenshot failed, HTML dump failed), the result carries the status and
\* the code of the ToolError that was thrown, and names no artifact of a step
\* that failed.
C11_CaptureFailureKeepsOriginalError ==
    /\ (ReturnedOne /\ ret.obs.captureFailed)
          => /\ ret.thrown.kind = "ToolError"
             /\ ret.result.status = ret.thrown.status
             /\ ret.result.code = ret.thrown.code
             /\ ret.result.ok = FALSE
             /\ (~ret.obs.shot => "screenshotPath" \notin ret.result.data)
    /\ \A c \in Calls :
          (Built(c) /\ obs[c].captureFailed)
             => /\ thrown[c].kind = "ToolError"
                /\ res[c].status = thrown[c].status
                /\ res[c].code = thrown[c].code
                /\ (~obs[c].shot => "screenshotPath" \notin res[c].data)

\* C11 witness: the screenshot of a triggered capture failed and the call
\* returned retryable_error / NAVIGATION_TIMEOUT as thrown.
C11_Witness ==
    /\ ReturnedOne
    /\ ret.obs.captureAttempted
    /\ ret.obs.shotTried
    /\ ~ret.obs.shot
    /\ ret.thrown = ToolError("retryable_error", "NAVIGATION_TIMEOUT")
    /\ ret.result.status = "retryable_error"
    /\ ret.result.code = "NAVIGATION_TIMEOUT"

\* A trace file that holds a completed record of call c.
CompleteFileOf(c, f) ==
    /\ f.writes = 1
    /\ f.record.traceId = TraceIdOf(c)
    /\ f.record.finished
    /\ f.record.status \in ToolStatus
    /\ f.record.code \in ToolCode

\* C13: a call whose recorder has a traces root writes exactly one trace file,
\* <tracesRoot>/<traceId>.json, holding the record with its finish mark, status
\* and code; a call without a traces root writes none. No file is written twice
\* and none is written before the record is completed.
C13_OneTraceFilePerCallWithRoot ==
    /\ ReturnedOne =>
          LET f == traceFiles[ret.call]
          IN IF ret.obs.root # None
             THEN /\ CompleteFileOf(ret.call, f)
                  /\ f.path = ret.obs.root \o "/" \o ret.result.traceId \o ".json"
                  /\ f.record.status = ret.result.status
                  /\ f.record.code = ret.result.code
             ELSE f = NoFile
    /\ \A c \in Calls :
          /\ traceFiles[c].writes <= 1
          /\ traceFiles[c] # NoFile => CompleteFileOf(c, traceFiles[c])
          /\ pc[c] \notin {"returned"} => traceFiles[c] = NoFile

\* C13 witness: a test_tool call made under a session with a traces root has
\* returned and its one trace file is on disk.
C13_Witness ==
    /\ ReturnedOne
    /\ ret.name = "test_tool"
    /\ ret.obs.root = TracesDirOf(defaultUserDataDir)
    /\ traceFiles[ret.call].writes = 1
    /\ traceFiles[ret.call].record.code = ret.result.code

\* The handler returned without choosing a status or a code.
ReturnedBare(o) == o.handlerReturned /\ o.outStatus = None /\ o.outCode = None

IsPlainSuccess(result) ==
    /\ result.ok = TRUE
    /\ result.status = "success"
    /\ result.code = "OK"

\* C14: when the handler returns without a status and without a code, the result
\* is ok = true, status = success, code = OK, whatever the valid input and the
\* tool.
C14_BareReturnIsSuccessOk ==
    /\ (ReturnedOne /\ ReturnedBare(ret.obs)) => IsPlainSuccess(ret.result)
    /\ \A c \in Calls : (Built(c) /\ ReturnedBare(obs[c])) => IsPlainSuccess(res[c])

\* C14 witness: the test tool's handler returned an output with neither status
\* nor code for a valid input, and the call returned success / OK.
C14_Witness ==
    /\ ReturnedOne
    /\ ret.name = "test_tool"
    /\ ret.args = Obj([value |-> Str("hello")])
    /\ ReturnedBare(ret.obs)
    /\ IsPlainSuccess(ret.result)

\* C15: the transport response carries isError = true exactly when the result's
\* ok is false, and has no isError field at all when ok is true.
C15_IsErrorIffNotOk ==
    ReturnedOne =>
        /\ "content" \in ret.transport.keys
        /\ ("isError" \in ret.transport.keys) <=> (ret.result.ok = FALSE)
        /\ ("isError" \in ret.transport.keys) => (ret.transport.isError = TRUE)

\* C15 witness: a call that ended need_user_action returned a response flagged
\* isError.
C15_Witness ==
    /\ ReturnedOne
    /\ ret.result.status = "need_user_action"
    /\ ret.result.ok = FALSE
    /\ "isError" \in ret.transport.keys
    /\ ret.transport.isError

IsUnknownFailure(result) ==
    /\ result.ok = FALSE
    /\ result.status = "fatal_error"
    /\ result.code = "UNKNOWN"
    /\ "cause" \in result.data

\* C16: when the handler throws something that is neither a ToolError nor a
\* schema-validation error, the call's result is status = fatal_error and
\* code = UNKNOWN with the cause in its data.
C16_UnexpectedErrorIsFatalUnknown ==
    /\ (ReturnedOne /\ ret.thrown.kind = "Error") => IsUnknownFailure(ret.result)
    /\ \A c \in Calls :
          (Built(c) /\ thrown[c].kind = "Error") => IsUnknownFailure(res[c])

\* C26: in every runTool call the handler is invoked at most once and only
\* after the raw input has passed the schema; a rejected input never reaches the
\* handler, and a handler that failed is not invoked again.
C26_HandlerInvokedAtMostOnceAfterValidation ==
    /\ ReturnedOne =>
          /\ ret.obs.handlerRuns <= 1
          /\ (ret.obs.rejectedInput \/ SchemaRejects(ret.name, ret.args))
                => ret.obs.handlerRuns = 0
          /\ ret.thrown # NoError => ret.obs.handlerRuns <= 1
    /\ \A c \in Calls :
          /\ obs[c].handlerRuns <= 1
          /\ obs[c].rejectedInput => obs[c].handlerRuns = 0
          /\ (pc[c] = "handler" \/ obs[c].handlerRuns = 1)
                => ~SchemaRejects(inp[c].name, inp[c].args)

\* C26 witness: a handler threw a retryable ToolError and the call returned
\* with the handler run exactly once.
C26_Witness ==
    /\ ReturnedOne
    /\ ret.obs.handlerRuns = 1
    /\ ret.thrown.kind = "ToolError"
    /\ ret.thrown.status = "retryable_error"
    /\ ret.result.ok = FALSE

\* C16 witness: the test tool's handler threw a plain Error for a valid input
\* and the call returned fatal_error / UNKNOWN.
C16_Witness ==
    /\ ReturnedOne
    /\ ret.name = "test_tool"
    /\ ret.obs.handlerRuns = 1
    /\ ret.thrown = OtherError
    /\ IsUnknownFailure(ret.result)

\* What a debug_get_trace call observed: the steps it returned against the
\* trace of the tool call saved last before it ran (NoRecord when none was).
ReturnsLatestSteps(o) ==
    o.readLatest =>
        /\ (o.lastSaved # NoRecord =>
               /\ o.steps = o.lastSaved.steps
               /\ o.steps # <<>>)
        /\ (o.steps = <<>> => o.lastSaved = NoRecord)

\* C20: debug_get_trace executed through runTool returns the steps of the most
\* recent tool call that completed and was saved, which are not empty, and it
\* returns an empty list only when no trace has been saved.
C20_DebugGetTraceReturnsLatestSteps ==
    /\ (ReturnedOne => ReturnsLatestSteps(ret.obs))
    /\ \A c \in Calls : Built(c) => ReturnsLatestSteps(obs[c])

(***************************************************************************)
(* DraftFlow.createDraft and the idempotency index (src/flows/DraftFlow.ts) *)
(***************************************************************************)
MaxDraftCalls == 2

DraftCalls == 1..MaxDraftCalls

\* DraftCreateInput values: two inputs whose title / content differ but whose
\* joined text is the same, a third one, and one asking for richtext.
DraftInput(title, content, format) ==
    [title |-> title, content |-> content, format |-> format]

DraftInputs ==
    { DraftInput("a", "b\nc", None),
      DraftInput("a\nb", "c", "markdown"),
      DraftInput("x", "y", None),
      DraftInput("x", "y", "richtext") }

NoDraftInput == DraftInput(None, None, None)

\* computeDraftHash: sha256 over `${title}\n${content}`; the digest is one-to-one
\* on the joined text, so the joined text stands for it.
computeDraftHash(title, content) == title \o "\n" \o content

\* URLs as their path segments below baseUrl.
BlankUrl    == <<"about:blank">>
NewDraftUrl == <<"editor", "drafts", "new">>
DraftUrl(n) == <<"editor", "drafts", "700" \o ToString(n)>>
HomeUrl     == <<"user", "center">>

IsDigits(s) == \E k \in 1..MaxDraftCalls : s = "700" \o ToString(k)

MinOf(S) == CHOOSE i \in S : \A j \in S : i <= j

\* extractDraftId: /drafts\/(\d+)/, then /drafts\/(\w+)/, then /editor\/(\d+)/;
\* the first pattern that matches gives the id, no match gives undefined.
extractDraftId(url) ==
    LET follows(seg) == {i \in 1..(Len(url) - 1) : url[i] = seg}
        p1 == {i \in follows("drafts") : IsDigits(url[i + 1])}
        p2 == follows("drafts")
        p3 == {i \in follows("editor") : IsDigits(url[i + 1])}
    IN IF p1 # {} THEN url[MinOf(p1) + 1]
       ELSE IF p2 # {} THEN url[MinOf(p2) + 1]
       ELSE IF p3 # {} THEN url[MinOf(p3) + 1]
       ELSE None

\* draftId = extractDraftId(editorUrl) ?? `draft_${hash.slice(0, 16)}`
DraftIdOf(url, hash) ==
    IF extractDraftId(url) # None THEN extractDraftId(url) ELSE "draft_" \o hash

\* The index file: missing, unparsable (also while a writer has truncated it),
\* or holding an index; an index is a set of entries, one per hash.
IndexEntry(hash, draftId, editorUrl, createdAt) ==
    [hash |-> hash, draftId |-> draftId, editorUrl |-> editorUrl, createdAt |-> createdAt]

FileMissing  == [state |-> "missing", index |-> {}]
FileCorrupt  == [state |-> "corrupt", index |-> {}]
FileOf(index) == [state |-> "ok", index |-> index]

readIdempotencyIndexAnyRecord(file) ==
    {IndexEntry(computeDraftHash(i.title, i.content), "held", <<>>, 0) : i \in DraftInputs}

readIdempotencyIndexKeepsOnFailure(file) ==
    IF file.state = "ok"
    THEN file.index
    ELSE {IndexEntry(computeDraftHash(i.title, i.content), "stale", <<>>, 0) :
             i \in DraftInputs}

\* readIdempotencyIndex: any failure to read or parse gives {}.
readIdempotencyIndex(file) == IF file.state = "ok" THEN file.index ELSE {}

HasRecord(index, hash) == \E e \in index : e.hash = hash

RecordOf(index, hash) == CHOOSE e \in index : e.hash = hash

IndexPutNothing(index, entry) == index

\* index[hash] = record
IndexPut(index, entry) == {e \in index : e.hash # entry.hash} \cup {entry}

NoOutput == [draftId |-> None, editorUrl |-> <<>>, reused |-> FALSE]

NoLocals == [hash |-> None, index |-> {}, editorUrl |-> <<>>, draftId |-> None,
             out |-> NoOutput, err |-> None]

InFlight(d) == dpc[d] \notin {"idle", "done", "failed"}

DraftFails(d, code) ==
    /\ dpc' = [dpc EXCEPT ![d] = "failed"]
    /\ dloc' = [dloc EXCEPT ![d] = [NoLocals EXCEPT !.hash = dloc[d].hash, !.err = code]]

UnchangedEngine == UNCHANGED engineVars

\* Lines 105-113: the format check, then requireLoggedIn is awaited.
DStart(d, input) ==
    /\ dpc[d] = "idle"
    /\ \A e \in DraftCalls : e < d => dpc[e] # "idle"
    /\ din' = [din EXCEPT ![d] = input]
    /\ dobs' = [dobs EXCEPT !.overlapped = @ \/ \E e \in DraftCalls : InFlight(e)]
    /\ IF input.format # None /\ input.format # "markdown"
       THEN DraftFails(d, "VALIDATION_ERROR")
       ELSE /\ dpc' = [dpc EXCEPT ![d] = "login"]
            /\ UNCHANGED dloc
    /\ UNCHANGED <<indexFile, page>>
    /\ UnchangedEngine /\ UnchangedLoc /\ UnchangedStore /\ UnchangedResult /\ UnchangedPublish /\ UnchangedManager /\ UnchangedLogin /\ UnchangedRecorder /\ UnchangedGoto /\ UnchangedGuard

\* Lines 113-116: requireLoggedIn resolved or threw; the hash is computed and the
\* index file is read.
DLogin(d, loggedIn) ==
    /\ dpc[d] = "login"
    /\ IF ~loggedIn
       THEN DraftFails(d, "NOT_LOGGED_IN")
       ELSE /\ dpc' = [dpc EXCEPT ![d] = "load"]
            /\ dloc' = [dloc EXCEPT ![d].hash =
                           computeDraftHash(din[d].title, din[d].content)]
    /\ UNCHANGED <<din, indexFile, page, dobs>>
    /\ UnchangedEngine /\ UnchangedLoc /\ UnchangedStore /\ UnchangedResult /\ UnchangedPublish /\ UnchangedManager /\ UnchangedLogin /\ UnchangedRecorder /\ UnchangedGoto /\ UnchangedGuard

\* Lines 116-126: loadIdempotencyRecord; a record found is returned as reused.
DLoad(d) ==
    /\ dpc[d] = "load"
    /\ LET index == readIdempotencyIndex(indexFile)
       IN IF HasRecord(index, dloc[d].hash)
          THEN /\ dpc' = [dpc EXCEPT ![d] = "done"]
               /\ dloc' = [dloc EXCEPT ![d].out =
                              [draftId   |-> RecordOf(index, dloc[d].hash).draftId,
                               editorUrl |-> RecordOf(index, dloc[d].hash).editorUrl,
                               reused    |-> TRUE]]
          ELSE /\ dpc' = [dpc EXCEPT ![d] = "goto"]
               /\ UNCHANGED dloc
    /\ UNCHANGED <<din, indexFile, page, dobs>>
    /\ UnchangedEngine /\ UnchangedLoc /\ UnchangedStore /\ UnchangedResult /\ UnchangedPublish /\ UnchangedManager /\ UnchangedLogin /\ UnchangedRecorder /\ UnchangedGoto /\ UnchangedGuard

\* Lines 127-133: gotoWithRetry to the new-draft editor, or NAVIGATION_TIMEOUT.
DGoto(d, ok) ==
    /\ dpc[d] = "goto"
    /\ dobs' = [dobs EXCEPT !.navigated = @ \cup {d}]
    /\ IF ok
       THEN /\ page' = [page EXCEPT !.url = NewDraftUrl, !.gotoCount = @ + 1]
            /\ dpc' = [dpc EXCEPT ![d] = "fillTitle"]
            /\ UNCHANGED dloc
       ELSE /\ DraftFails(d, "NAVIGATION_TIMEOUT")
            /\ UNCHANGED page
    /\ UNCHANGED <<din, indexFile>>
    /\ UnchangedEngine /\ UnchangedLoc /\ UnchangedStore /\ UnchangedResult /\ UnchangedPublish /\ UnchangedManager /\ UnchangedLogin /\ UnchangedRecorder /\ UnchangedGoto /\ UnchangedGuard

\* Line 135: fillWithFallback on the title, or SELECTOR_CHANGED.
DFillTitle(d, ok) ==
    /\ dpc[d] = "fillTitle"
    /\ IF ok
       THEN /\ dpc' = [dpc EXCEPT ![d] = "fillContent"]
            /\ UNCHANGED dloc
       ELSE DraftFails(d, "SELECTOR_CHANGED")
    /\ UNCHANGED <<din, indexFile, page, dobs>>
    /\ UnchangedEngine /\ UnchangedLoc /\ UnchangedStore /\ UnchangedResult /\ UnchangedPublish /\ UnchangedManager /\ UnchangedLogin /\ UnchangedRecorder /\ UnchangedGoto /\ UnchangedGuard

\* Line 136: fillEditorContent, or SELECTOR_CHANGED.
DFillContent(d, ok) ==
    /\ dpc[d] = "fillContent"
    /\ IF ok
       THEN /\ dpc' = [dpc EXCEPT ![d] = "clickSave"]
            /\ dobs' = [dobs EXCEPT !.filled = @ \cup {d}]
            /\ UNCHANGED dloc
       ELSE /\ DraftFails(d, "SELECTOR_CHANGED")
            /\ UNCHANGED dobs
    /\ UNCHANGED <<din, indexFile, page>>
    /\ UnchangedEngine /\ UnchangedLoc /\ UnchangedStore /\ UnchangedResult /\ UnchangedPublish /\ UnchangedManager /\ UnchangedLogin /\ UnchangedRecorder /\ UnchangedGoto /\ UnchangedGuard

\* Lines 138-145: the save click (a missing button is tolerated), then the wait.
DClickSave(d, found) ==
    /\ dpc[d] = "clickSave"
    /\ dpc' = [dpc EXCEPT ![d] = "wait"]
    /\ dobs' = [dobs EXCEPT !.clicked = @ \cup {d}]
    /\ UNCHANGED <<din, dloc, indexFile, page>>
    /\ UnchangedEngine /\ UnchangedLoc /\ UnchangedStore /\ UnchangedResult /\ UnchangedPublish /\ UnchangedManager /\ UnchangedLogin /\ UnchangedRecorder /\ UnchangedGoto /\ UnchangedGuard

\* Lines 145-150: during the wait the editor may have saved the draft and moved
\* to its URL, stayed on the new-draft URL, or left the editor; the URL is read,
\* the id derived, and saveIdempotencyRecord starts reading the index.
DWait(d, editor) ==
    /\ dpc[d] = "wait"
    /\ page' = CASE editor = "saved"  -> [page EXCEPT !.url = DraftUrl(page.saves + 1),
                                                       !.saves = @ + 1]
                 [] editor = "stayed" -> page
                 [] editor = "left"   -> [page EXCEPT !.url = HomeUrl]
    /\ dloc' = [dloc EXCEPT ![d].editorUrl = page'.url,
                            ![d].draftId = DraftIdOf(page'.url, dloc[d].hash)]
    /\ dpc' = [dpc EXCEPT ![d] = "readIndex"]
    /\ UNCHANGED <<din, indexFile, dobs>>
    /\ UnchangedEngine /\ UnchangedLoc /\ UnchangedStore /\ UnchangedResult /\ UnchangedPublish /\ UnchangedManager /\ UnchangedLogin /\ UnchangedRecorder /\ UnchangedGoto /\ UnchangedGuard

\* Lines 246-247: the index is read again and the record put under the hash.
DReadIndex(d) ==
    /\ dpc[d] = "readIndex"
    /\ dloc' = [dloc EXCEPT ![d].index =
                   IndexPut(readIdempotencyIndex(indexFile),
                            IndexEntry(dloc[d].hash, dloc[d].draftId, dloc[d].editorUrl, d))]
    /\ dpc' = [dpc EXCEPT ![d] = "writeOpen"]
    /\ UNCHANGED <<din, indexFile, page, dobs>>
    /\ UnchangedEngine /\ UnchangedLoc /\ UnchangedStore /\ UnchangedResult /\ UnchangedPublish /\ UnchangedManager /\ UnchangedLogin /\ UnchangedRecorder /\ UnchangedGoto /\ UnchangedGuard

\* Line 237: writeFile opens the file, truncating it, or fails.
DWriteOpen(d, ok) ==
    /\ dpc[d] = "writeOpen"
    /\ IF ok
       THEN /\ indexFile' = FileCorrupt
            /\ dpc' = [dpc EXCEPT ![d] = "writeData"]
            /\ UNCHANGED dloc
       ELSE /\ DraftFails(d, "UNKNOWN")
            /\ UNCHANGED indexFile
    /\ UNCHANGED <<din, page, dobs>>
    /\ UnchangedEngine /\ UnchangedLoc /\ UnchangedStore /\ UnchangedResult /\ UnchangedPublish /\ UnchangedManager /\ UnchangedLogin /\ UnchangedRecorder /\ UnchangedGoto /\ UnchangedGuard

\* Lines 237 and 156-160: the serialized index is in the file; createDraft returns.
DWriteData(d) ==
    /\ dpc[d] = "writeData"
    /\ indexFile' = FileOf(dloc[d].index)
    /\ dobs' = [dobs EXCEPT !.writes = Append(@, [call |-> d, hash |-> dloc[d].hash])]
    /\ dloc' = [dloc EXCEPT ![d].out = [draftId |-> dloc[d].draftId,
                                        editorUrl |-> dloc[d].editorUrl,
                                        reused |-> FALSE],
                            ![d].index = {}]
    /\ dpc' = [dpc EXCEPT ![d] = "done"]
    /\ UNCHANGED <<din, page>>
    /\ UnchangedEngine /\ UnchangedLoc /\ UnchangedStore /\ UnchangedResult /\ UnchangedPublish /\ UnchangedManager /\ UnchangedLogin /\ UnchangedRecorder /\ UnchangedGoto /\ UnchangedGuard

EngineIdle ==
    /\ pc = <<>>
    /\ inp = <<>>
    /\ thrown = <<>>
    /\ res = <<>>
    /\ rec = <<>>
    /\ obs = <<>>
    /\ traces = <<>>
    /\ latestTraceId = None
    /\ ret = NoRet
    /\ traceFiles = <<>>
    /\ session = [context |-> TRUE, dir |-> defaultUserDataDir]

DraftInit ==
    /\ dpc = [d \in DraftCalls |-> "idle"]
    /\ din = [d \in DraftCalls |-> NoDraftInput]
    /\ dloc = [d \in DraftCalls |-> NoLocals]
    /\ indexFile \in {FileMissing, FileCorrupt}
    /\ page = [url |-> BlankUrl, gotoCount |-> 0, saves |-> 0]
    /\ dobs = [navigated |-> {}, filled |-> {}, clicked |-> {}, writes |-> <<>>,
               overlapped |-> FALSE]

InitDraft == EngineIdle /\ DraftInit /\ LocIdle /\ StoreIdle /\ ResultIdle /\ PublishIdle /\ ManagerIdle /\ LoginIdle /\ RecorderIdle /\ GotoIdle /\ GuardIdle

NextDraft ==
    \/ \E d \in DraftCalls, input \in DraftInputs : DStart(d, input)
    \/ \E d \in DraftCalls, loggedIn \in BOOLEAN : DLogin(d, loggedIn)
    \/ \E d \in DraftCalls : DLoad(d)
    \/ \E d \in DraftCalls, ok \in BOOLEAN : DGoto(d, ok)
    \/ \E d \in DraftCalls, ok \in BOOLEAN : DFillTitle(d, ok)
    \/ \E d \in DraftCalls, ok \in BOOLEAN : DFillContent(d, ok)
    \/ \E d \in DraftCalls, found \in BOOLEAN : DClickSave(d, found)
    \/ \E d \in DraftCalls, editor \in {"saved", "stayed", "left"} : DWait(d, editor)
    \/ \E d \in DraftCalls : DReadIndex(d)
    \/ \E d \in DraftCalls, ok \in BOOLEAN : DWriteOpen(d, ok)
    \/ \E d \in DraftCalls : DWriteData(d)

SpecDraft == InitDraft /\ [][NextDraft]_vars


(***************************************************************************)
(* Properties of createDraft (specification SpecDraft)                     *)
(***************************************************************************)
Returned(d) == dpc[d] = "done"

SameTitleAndContent(d, e) ==
    din[d].title = din[e].title /\ din[d].content = din[e].content

SameFingerprint(d, e) == dloc[d].hash # None /\ dloc[d].hash = dloc[e].hash

\* d is the first call to return for its fingerprint.
FirstReturnedFor(d) ==
    \A e \in DraftCalls : e < d => ~(Returned(e) /\ SameFingerprint(e, d))

RanSideEffect(d) == d \in dobs.navigated /\ d \in dobs.filled /\ d \in dobs.clicked

TouchedPage(d) == d \in dobs.navigated \/ d \in dobs.filled \/ d \in dobs.clicked

\* C5: two createDraft calls made one after the other with the same title and
\* content return the same draftId and editorUrl, with reused = false on the
\* first and reused = true on the second, and the navigation, fill and save click
\* run in exactly one of the two.
C5_SequentialCallsReuseTheDraft ==
    \A d, e \in DraftCalls :
        ( /\ d < e
          /\ ~dobs.overlapped
          /\ Returned(d) /\ Returned(e)
          /\ SameTitleAndContent(d, e)
          /\ FirstReturnedFor(d) )
        => /\ dloc[d].out.reused = FALSE
           /\ dloc[e].out.reused = TRUE
           /\ dloc[e].out.draftId = dloc[d].out.draftId
           /\ dloc[e].out.editorUrl = dloc[d].out.editorUrl
           /\ RanSideEffect(d)
           /\ ~TouchedPage(e)

\* C5 witness: two sequential calls with the same title and content have both
\* returned, the second one reusing the draft of the first.
C5_Witness ==
    /\ ~dobs.overlapped
    /\ Returned(1) /\ Returned(2)
    /\ SameTitleAndContent(1, 2)
    /\ dloc[1].out.reused = FALSE
    /\ dloc[2].out.reused = TRUE
    /\ dloc[2].out.draftId = dloc[1].out.draftId
    /\ page.gotoCount = 1

FileHolds(hash) == indexFile.state = "ok" /\ \E e \in indexFile.index : e.hash = hash

WrittenFor(hash) == \E i \in 1..Len(dobs.writes) : dobs.writes[i].hash = hash

\* C6: calls with the same fingerprint do not exclude one another. Until the
\* write of a record for the fingerprint has finished the index shows no record
\* for it, whatever calls are in flight, so a call reuses a draft only after such
\* a write; two overlapping calls can therefore both miss and both run the side
\* effect before either record is written (the witness).
C6_NoExclusionBeforeTheWrite ==
    /\ \A d \in DraftCalls :
          (Returned(d) /\ dloc[d].out.reused) => WrittenFor(dloc[d].hash)
    /\ \A d \in DraftCalls :
          (dloc[d].hash # None /\ FileHolds(dloc[d].hash)) => WrittenFor(dloc[d].hash)

\* C6 witness: two calls with one fingerprint have both found no record and both
\* run navigation, fill and save click, and no record has been written yet.
C6_Witness ==
    \E d, e \in DraftCalls :
        /\ d # e
        /\ SameFingerprint(d, e)
        /\ RanSideEffect(d) /\ RanSideEffect(e)
        /\ dobs.writes = <<>>
        /\ ~FileHolds(dloc[d].hash)

\* C7: for a fixed fingerprint the record is written at most once: no two writes
\* of the index store a record under the same fingerprint.
C7_RecordWrittenAtMostOnce ==
    \A i, j \in 1..Len(dobs.writes) :
        i # j => dobs.writes[i].hash # dobs.writes[j].hash


Quiescent == \A d \in DraftCalls : ~InFlight(d)

\* The fingerprints for which a create (a call that did not reuse) completed.
CreatedFingerprints ==
    {dloc[d].hash : d \in {e \in DraftCalls : Returned(e) /\ ~dloc[e].out.reused}}

\* The records the index file holds, none when it is missing or unparsable.
RecordsOnDisk == IF indexFile.state = "ok" THEN indexFile.index ELSE {}

\* C17: after any sequence of createDraft calls that did not overlap, the index
\* holds exactly one record for each fingerprint for which a create completed
\* and no other record; a repeated create adds none.
C17_OneRecordPerCreatedFingerprint ==
    (~dobs.overlapped /\ Quiescent) =>
        /\ {e.hash : e \in RecordsOnDisk} = CreatedFingerprints
        /\ Cardinality(RecordsOnDisk) = Cardinality(CreatedFingerprints)
        /\ \A d \in DraftCalls :
              (Returned(d) /\ ~dloc[d].out.reused) =>
                  \E e \in RecordsOnDisk :
                      /\ e.hash = dloc[d].hash
                      /\ e.draftId = dloc[d].out.draftId
                      /\ e.editorUrl = dloc[d].out.editorUrl

\* C17 witness: two identical calls, one after the other, have both returned
\* and the index holds exactly one record.
C17_Witness ==
    /\ ~dobs.overlapped
    /\ Quiescent
    /\ Returned(1) /\ Returned(2)
    /\ SameTitleAndContent(1, 2)
    /\ indexFile.state = "ok"
    /\ Cardinality(indexFile.index) = 1

FileUnusable == indexFile.state \in {"missing", "corrupt"}

\* C18: a missing, unreadable or unparsable index file is read as an empty
\* index.  A lookup that resolves against such a file reports no record and
\* the call goes on to the editor without an error; the read before the write
\* starts from the empty index, so the index to be written holds the call's
\* record alone.
C18_UnusableIndexFileIsEmptyIndex ==
    [][ \A d \in DraftCalls :
          /\ (FileUnusable /\ dpc[d] = "load" /\ dpc'[d] # "load") =>
                 /\ dpc'[d] = "goto"
                 /\ dloc'[d].err = None
                 /\ dloc'[d].out = NoOutput
          /\ (FileUnusable /\ dpc[d] = "readIndex" /\ dpc'[d] # "readIndex") =>
                 /\ dpc'[d] = "writeOpen"
                 /\ dloc'[d].err = None
                 /\ {e.hash : e \in dloc'[d].index} = {dloc[d].hash} ]_vars

\* C18 witness: the file is unparsable, the only call started has finished its
\* lookup against it and is on its way to the editor with no error.
C18_Witness ==
    /\ indexFile.state = "corrupt"
    /\ dpc[1] = "goto"
    /\ dloc[1].err = None
    /\ \A d \in DraftCalls : d # 1 => dpc[d] = "idle"

(***************************************************************************)
(* locateWithFallback (src/flows/browserUtils.ts)                          *)
(***************************************************************************)
MaxCandidates == 3

\* SelectorCandidate values of three of the five types.
CandA == [type |-> "css", value |-> "#a", role |-> None]
CandB == [type |-> "text", value |-> "b", role |-> None]
CandC == [type |-> "role", value |-> "c", role |-> "button"]

Candidates == {CandA, CandB, CandC}

candidateLabel(candidate) ==
    CASE candidate.type = "role" ->
             "role=" \o candidate.role \o ";name=" \o candidate.value
      [] candidate.type = "text"        -> "text=" \o candidate.value
      [] candidate.type = "css"         -> "css=" \o candidate.value
      [] candidate.type = "placeholder" -> "placeholder=" \o candidate.value
      [] candidate.type = "label"       -> "label=" \o candidate.value

CandidateLists == UNION {[1..n -> Candidates] : n \in 0..MaxCandidates}

waitForAlwaysVisible(candidate, visible) == TRUE

\* locator.waitFor({state: "visible", timeout}): resolves iff the candidate's
\* element becomes visible within the timeout, rejects otherwise.
waitFor(candidate, visible) == candidate \in visible

fatalAsRetryable(code) == ToolError("retryable_error", code)

\* ToolError.fatal(code, message)
fatal(code) == ToolError("fatal_error", code)

NoLocResult == [kind |-> "none", matched |-> None, index |-> 0, error |-> NoError]

LocAction == "click"

\* Lines 242-248: the next candidate is taken, "trying" is recorded and the wait
\* for its visibility starts.
LTry ==
    /\ lpc = "loop"
    /\ lidx < Len(lcands)
    /\ lidx' = lidx + 1
    /\ lsteps' = Append(lsteps, Step(LocAction, candidateLabel(lcands[lidx + 1]),
                                     "trying selector candidate"))
    /\ lwaits' = Append(lwaits, lidx + 1)
    /\ lpc' = "waiting"
    /\ UNCHANGED <<lcands, lvisible, lresult>>
    /\ UnchangedEngine /\ UnchangedDraft /\ UnchangedStore /\ UnchangedResult /\ UnchangedPublish /\ UnchangedManager /\ UnchangedLogin /\ UnchangedRecorder /\ UnchangedGoto /\ UnchangedGuard

\* Lines 248-256: the wait resolved (the match is returned) or rejected (the
\* loop goes on).
LWaitDone ==
    /\ lpc = "waiting"
    /\ IF waitFor(lcands[lidx], lvisible)
       THEN /\ lsteps' = Append(lsteps, Step(LocAction, candidateLabel(lcands[lidx]),
                                             "selector matched"))
            /\ lresult' = [kind |-> "matched", matched |-> candidateLabel(lcands[lidx]),
                           index |-> lidx, error |-> NoError]
            /\ lpc' = "returned"
       ELSE /\ lsteps' = Append(lsteps, Step(LocAction, candidateLabel(lcands[lidx]),
                                             "selector not matched"))
            /\ lpc' = "loop"
            /\ UNCHANGED lresult
    /\ UNCHANGED <<lcands, lvisible, lidx, lwaits>>
    /\ UnchangedEngine /\ UnchangedDraft /\ UnchangedStore /\ UnchangedResult /\ UnchangedPublish /\ UnchangedManager /\ UnchangedLogin /\ UnchangedRecorder /\ UnchangedGoto /\ UnchangedGuard

\* Line 259: the candidates are exhausted.
LExhausted ==
    /\ lpc = "loop"
    /\ lidx = Len(lcands)
    /\ lresult' = [kind |-> "thrown", matched |-> None, index |-> 0,
                   error |-> fatal("SELECTOR_CHANGED")]
    /\ lpc' = "thrown"
    /\ UNCHANGED <<lcands, lvisible, lidx, lsteps, lwaits>>
    /\ UnchangedEngine /\ UnchangedDraft /\ UnchangedStore /\ UnchangedResult /\ UnchangedPublish /\ UnchangedManager /\ UnchangedLogin /\ UnchangedRecorder /\ UnchangedGoto /\ UnchangedGuard

LocInit ==
    /\ lpc = "loop"
    /\ lcands \in CandidateLists
    /\ lvisible \in SUBSET Candidates
    /\ lidx = 0
    /\ lsteps = <<>>
    /\ lwaits = <<>>
    /\ lresult = NoLocResult

InitLocate == EngineIdle /\ DraftIdle /\ LocInit /\ StoreIdle /\ ResultIdle /\ PublishIdle /\ ManagerIdle /\ LoginIdle /\ RecorderIdle /\ GotoIdle /\ GuardIdle

NextLocate == LTry \/ LWaitDone \/ LExhausted

SpecLocate == InitLocate /\ [][NextLocate]_vars

(***************************************************************************)
(* Properties of locateWithFallback (specification SpecLocate)             *)
(***************************************************************************)
\* The waits performed so far are on candidates 1, 2, ..., in this order.
WaitsInOrder == \A i \in 1..Len(lwaits) : lwaits[i] = i

NoneVisible == \A i \in 1..Len(lcands) : lcands[i] \notin lvisible

\* C8: candidates are evaluated strictly in the caller's order; the match
\* returned is the first candidate that becomes visible, and no candidate after
\* it is waited on or recorded.
C8_FirstVisibleInOrder ==
    /\ WaitsInOrder
    /\ lpc = "returned" =>
          /\ lresult.kind = "matched"
          /\ lresult.index \in 1..Len(lcands)
          /\ lcands[lresult.index] \in lvisible
          /\ \A j \in 1..(lresult.index - 1) : lcands[j] \notin lvisible
          /\ lresult.matched = candidateLabel(lcands[lresult.index])
          /\ Len(lwaits) = lresult.index
          /\ Len(lsteps) = 2 * lresult.index
          /\ lsteps[Len(lsteps)] =
                 Step(LocAction, candidateLabel(lcands[lresult.index]), "selector matched")

\* C8 witness: for [A never visible, B visible, C visible] the locator returned
\* B after waiting on A and B only.
C8_Witness ==
    /\ lcands = <<CandA, CandB, CandC>>
    /\ lvisible = {CandB, CandC}
    /\ lpc = "returned"
    /\ lresult.matched = candidateLabel(CandB)
    /\ lwaits = <<1, 2>>

\* C9: when no candidate of the list becomes visible (the empty list included)
\* the locator waits on every candidate exactly once and then throws a fatal
\* ToolError with code SELECTOR_CHANGED; no candidate is ever waited on twice.
C9_ExhaustedIsSelectorChanged ==
    /\ \A i, j \in 1..Len(lwaits) : i # j => lwaits[i] # lwaits[j]
    /\ Len(lwaits) <= Len(lcands)
    /\ (NoneVisible /\ lpc \notin {"loop", "waiting"}) => lpc = "thrown"
    /\ lpc = "thrown" =>
          /\ NoneVisible
          /\ lwaits = [i \in 1..Len(lcands) |-> i]
          /\ Len(lsteps) = 2 * Len(lcands)
          /\ lresult.kind = "thrown"
          /\ lresult.error.kind = "ToolError"
          /\ lresult.error.status = "fatal_error"
          /\ lresult.error.code = "SELECTOR_CHANGED"

\* C9 witness: a list of two or more candidates, none visible, was exhausted.
C9_Witness ==
    /\ Len(lcands) >= 2
    /\ NoneVisible
    /\ lpc = "thrown"
    /\ Len(lwaits) = Len(lcands)


(***************************************************************************)
(* TraceStore on its own: createTrace / complete / save in long runs       *)
(* (src/observability/TraceStore.ts)                                       *)
(***************************************************************************)
MaxOverflow == 2

MaxResaves == 1

\* Traces created in one run: enough to pass the capacity by MaxOverflow.
MaxCreated == MAX_IN_MEMORY_TRACES + MaxOverflow

UnchangedCalls ==
    UNCHANGED <<pc, inp, thrown, res, rec, obs, ret, traceFiles, session>>

\* createTrace(traceId, toolName): a fresh recorder; latestTraceId moves to it.
SCreate ==
    /\ sopen = NoRecorder
    /\ screated < MaxCreated
    /\ screated' = screated + 1
    /\ sopen' = createTrace(TraceIdOf(screated + 1), "some_tool", None)
    /\ latestTraceId' = TraceIdOf(screated + 1)
    /\ sread' = NoRead
    /\ UNCHANGED <<traces, sresaves>>
    /\ UnchangedCalls /\ UnchangedDraft /\ UnchangedLoc /\ UnchangedResult /\ UnchangedPublish /\ UnchangedManager /\ UnchangedLogin /\ UnchangedRecorder /\ UnchangedGoto /\ UnchangedGuard

\* recorder.complete(...) with no traces root, then save(completed).
SSave ==
    /\ sopen # NoRecorder
    /\ LET done == completeFields(sopen,
                       createToolResult(sopen.data.traceId, "success", None, None, {}))
       IN /\ traces' = storeSave(traces, snapshot(done))
          /\ latestTraceId' = done.data.traceId
    /\ sopen' = NoRecorder
    /\ sread' = NoRead
    /\ UNCHANGED <<screated, sresaves>>
    /\ UnchangedCalls /\ UnchangedDraft /\ UnchangedLoc /\ UnchangedResult /\ UnchangedPublish /\ UnchangedManager /\ UnchangedLogin /\ UnchangedRecorder /\ UnchangedGoto /\ UnchangedGuard

\* The positions of the records saved again: the oldest, the one after it and
\* the one at the capacity.
ResavePositions == {1, 2, MAX_IN_MEMORY_TRACES}

\* save(record) for a trace id that is in the store already.
SResave(i) ==
    /\ sopen = NoRecorder
    /\ sresaves < MaxResaves
    /\ i \in 1..Len(traces)
    /\ traces' = storeSave(traces, [traces[i] EXCEPT !.message = "saved again"])
    /\ latestTraceId' = traces[i].traceId
    /\ sresaves' = sresaves + 1
    /\ sread' = NoRead
    /\ UNCHANGED <<screated, sopen>>
    /\ UnchangedCalls /\ UnchangedDraft /\ UnchangedLoc /\ UnchangedResult /\ UnchangedPublish /\ UnchangedManager /\ UnchangedLogin /\ UnchangedRecorder /\ UnchangedGoto /\ UnchangedGuard

\* The trace ids getByTraceId is asked for: the first one saved (evicted in
\* long runs), the one that fills the store, and one never created.
ReadIds == {TraceIdOf(1), TraceIdOf(MAX_IN_MEMORY_TRACES), "no-such-trace"}

\* getLatest(), lines 560-565.
SGetLatest ==
    /\ sread' = [op |-> "getLatest", traceId |-> latestTraceId,
                 result |-> getLatest(traces, latestTraceId)]
    /\ UNCHANGED <<traces, latestTraceId, screated, sopen, sresaves>>
    /\ UnchangedCalls /\ UnchangedDraft /\ UnchangedLoc /\ UnchangedResult /\ UnchangedPublish /\ UnchangedManager /\ UnchangedLogin /\ UnchangedRecorder /\ UnchangedGoto /\ UnchangedGuard

\* getByTraceId(traceId), lines 567-569.
SGetByTraceId(traceId) ==
    /\ sread' = [op |-> "getByTraceId", traceId |-> traceId,
                 result |-> getByTraceId(traces, traceId)]
    /\ UNCHANGED <<traces, latestTraceId, screated, sopen, sresaves>>
    /\ UnchangedCalls /\ UnchangedDraft /\ UnchangedLoc /\ UnchangedResult /\ UnchangedPublish /\ UnchangedManager /\ UnchangedLogin /\ UnchangedRecorder /\ UnchangedGoto /\ UnchangedGuard

InitStore == EngineIdle /\ DraftIdle /\ LocIdle /\ StoreIdle /\ ResultIdle /\ PublishIdle /\ ManagerIdle /\ LoginIdle /\ RecorderIdle /\ GotoIdle /\ GuardIdle

NextStore ==
    \/ SCreate
    \/ SSave
    \/ \E i \in ResavePositions : SResave(i)
    \/ SGetLatest
    \/ \E traceId \in ReadIds : SGetByTraceId(traceId)

SpecStore == InitStore /\ [][NextStore]_vars

(***************************************************************************)
(* Properties of the TraceStore (specification SpecStore)                  *)
(***************************************************************************)
StoredIds(seq) == {seq[i].traceId : i \in 1..Len(seq)}

\* The trace ids a step removes from the store.
Evicted == StoredIds(traces) \ StoredIds(traces')

\* A step in which save is called with a trace id the store does not hold.
InsertsNewId ==
    /\ sopen # NoRecorder
    /\ sopen' = NoRecorder
    /\ sopen.data.traceId \notin StoredIds(traces)

\* C12: the store never holds more than 50 records; a save of a new trace id
\* into a full store evicts exactly the record inserted earliest and keeps the
\* others in their order, and no other save evicts anything.
C12_CapacityAndOldestEvicted ==
    /\ [](Len(traces) <= 50)
    /\ [][ IF InsertsNewId
           THEN /\ traces' # <<>>
                /\ traces'[Len(traces')].traceId = sopen.data.traceId
                /\ IF Len(traces) = 50
                   THEN /\ Evicted = {traces[1].traceId}
                        /\ Len(traces') = 50
                        /\ \A i \in 1..49 : traces'[i] = traces[i + 1]
                   ELSE /\ Evicted = {}
                        /\ Len(traces') = Len(traces) + 1
           ELSE Evicted = {} ]_vars

\* C12 witness: 51 traces were saved; the store holds 50, the first one saved is
\* gone and the second one is now the earliest.
C12_Witness ==
    /\ Len(traces) = 50
    /\ traces[1].traceId = TraceIdOf(2)
    /\ traces[50].traceId = TraceIdOf(51)
    /\ TraceIdOf(1) \notin StoredIds(traces)



(***************************************************************************)
(* createToolResult applied on its own (src/shared/result.ts)              *)
(***************************************************************************)
MaxApplications == 2

\* ResultOptions: status is required; code, message and data are optional.  An
\* empty message and an empty object are present values, not absent ones.
ResultOptions ==
    [traceId : {TraceIdOf(c) : c \in Calls},
     status  : ToolStatus,
     code    : ToolCode \cup {None},
     message : {None, "", "caller message"},
     data    : {NoData, {}, {"payload"}}]

\* One more call of createToolResult with the same options.
CreateToolResult ==
    /\ Len(made) < MaxApplications
    /\ made' = Append(made, createToolResult(options.traceId, options.status,
                                             options.code, options.message,
                                             options.data))
    /\ UNCHANGED options
    /\ UnchangedEngine /\ UnchangedDraft /\ UnchangedLoc /\ UnchangedStore /\ UnchangedPublish /\ UnchangedManager /\ UnchangedLogin /\ UnchangedRecorder /\ UnchangedGoto /\ UnchangedGuard

ResultInit ==
    /\ options \in ResultOptions
    /\ made = <<>>

InitResult == EngineIdle /\ DraftIdle /\ LocIdle /\ StoreIdle /\ ResultInit /\ PublishIdle /\ ManagerIdle /\ LoginIdle /\ RecorderIdle /\ GotoIdle /\ GuardIdle

NextResult == CreateToolResult

SpecResult == InitResult /\ [][NextResult]_vars

\* The default code the envelope is documented to take for each status.
DocumentedDefaultCode ==
    [success |-> "OK", need_user_action |-> "NOT_LOGGED_IN",
     retryable_error |-> "UNKNOWN", fatal_error |-> "UNKNOWN"]

\* C19: createToolResult is a function of its options: every call with the same
\* options gives the same result; an absent code becomes the default code of the
\* status, an absent message becomes the default message of the resulting code,
\* which is not empty for any code, absent data becomes the empty object, and
\* whatever is present is passed through.
C19_ResultIsFunctionOfOptionsWithDefaults ==
    /\ \A code \in ToolCode : codeToDefaultMessage(code) # ""
    /\ \A i \in 1..Len(made) :
          /\ made[i] = made[1]
          /\ made[i].status = options.status
          /\ made[i].code = IF options.code = None
                            THEN DocumentedDefaultCode[options.status]
                            ELSE options.code
          /\ made[i].message = IF options.message = None
                               THEN codeToDefaultMessage(made[i].code)
                               ELSE options.message
          /\ (options.message = None => made[i].message # "")
          /\ made[i].data = IF options.data = NoData THEN {} ELSE options.data

\* C19 witness: only the status was given, the function has been applied twice.
C19_Witness ==
    /\ Len(made) = 2
    /\ options.status = "need_user_action"
    /\ options.code = None
    /\ options.message = None
    /\ options.data = NoData
    /\ made[2].code = "NOT_LOGGED_IN"
    /\ made[2].data = {}


(***************************************************************************)
(* DraftFlow.publishDraft (src/flows/DraftFlow.ts)                         *)
(***************************************************************************)
retryableAsFatal(code) == ToolError("fatal_error", code)

\* ToolError.retryable(code, message)
retryable(code) == ToolError("retryable_error", code)

\* DraftPublishInput: confirm and scheduleTime are optional.
PublishInput(draftId, confirm, scheduleTime) ==
    [draftId |-> draftId, confirm |-> confirm, scheduleTime |-> scheduleTime]

PublishInputs ==
    {PublishInput("7001", confirm, scheduleTime) :
        confirm \in {"undefined", "true", "false"},
        scheduleTime \in {None, "2026-03-01T10:00:00Z", "not a date"}}

\* new Date(scheduleTime) is a valid date
IsValidDate(scheduleTime) == scheduleTime = "2026-03-01T10:00:00Z"

\* Segments that \d+ matches; every other segment of the model matches \w+ only.
IsArticleDigits(s) == s \in {"10086", "7001"}

PostUrl(id)    == <<"post", id>>
ArticleUrl(id) == <<"article", id>>

\* The page URLs the browser may show once the publish dialog has been handled.
UrlsAfterPublish(editorUrl) ==
    {editorUrl, HomeUrl, <<"post">>, PostUrl("10086"), PostUrl("abc"),
     ArticleUrl("10086"), ArticleUrl("abc")}

\* extractArticleId: /post\/(\d+)/, then /post\/(\w+)/, then /article\/(\d+)/;
\* the first pattern that matches gives the id, no match gives undefined.
extractArticleId(url) ==
    LET follows(seg) == {i \in 1..(Len(url) - 1) : url[i] = seg}
        p1 == {i \in follows("post") : IsArticleDigits(url[i + 1])}
        p2 == follows("post")
        p3 == {i \in follows("article") : IsArticleDigits(url[i + 1])}
    IN IF p1 # {} THEN url[MinOf(p1) + 1]
       ELSE IF p2 # {} THEN url[MinOf(p2) + 1]
       ELSE IF p3 # {} THEN url[MinOf(p3) + 1]
       ELSE None

\* findEditorUrlByDraftId: the editorUrl of an index record with this draftId.
findEditorUrlByDraftId(file, draftId) ==
    LET matched == {e \in readIdempotencyIndex(file) : e.draftId = draftId}
    IN IF matched = {} THEN <<>> ELSE (CHOOSE e \in matched : TRUE).editorUrl

\* editorUrlFromIndex ?? `${baseUrl}/editor/drafts/${draftId}`
targetEditorUrl(file, draftId) ==
    IF findEditorUrlByDraftId(file, draftId) # <<>>
    THEN findEditorUrlByDraftId(file, draftId)
    ELSE <<"editor", "drafts", draftId>>

NoPublishOut == [kind |-> "none", articleId |-> None, articleUrl |-> <<>>, error |-> NoError]

PublishThrows(err) ==
    /\ ppc' = "failed"
    /\ pout' = [NoPublishOut EXCEPT !.kind = "thrown", !.error = err]

UnchangedOthers ==
    /\ UnchangedEngine /\ UnchangedDraft /\ UnchangedLoc /\ UnchangedStore
    /\ UnchangedResult /\ UnchangedManager /\ UnchangedLogin /\ UnchangedRecorder /\ UnchangedGoto /\ UnchangedGuard

\* Lines 167, LoginFlow 177-183: the session is checked, then getPage is awaited.
PStart(input) ==
    /\ ppc = "idle"
    /\ pin' = input
    /\ IF ~isInitialized(session)
       THEN PublishThrows(fatal("NOT_LOGGED_IN"))
       ELSE ppc' = "login" /\ UNCHANGED pout
    /\ UNCHANGED <<pfile, purl, pclicks>>
    /\ UnchangedOthers

\* Lines 167-170: requireLoggedIn resolved or threw; the index file is read.
PLogin(loggedIn) ==
    /\ ppc = "login"
    /\ IF ~loggedIn
       THEN PublishThrows(fatal("NOT_LOGGED_IN"))
       ELSE ppc' = "goto" /\ UNCHANGED pout
    /\ UNCHANGED <<pin, pfile, purl, pclicks>>
    /\ UnchangedOthers

\* Lines 170-181: the target URL is chosen and gotoWithRetry runs.
PGoto(ok) ==
    /\ ppc = "goto"
    /\ IF ok
       THEN /\ purl' = targetEditorUrl(pfile, pin.draftId)
            /\ ppc' = "open"
            /\ UNCHANGED pout
       ELSE /\ PublishThrows(retryable("NAVIGATION_TIMEOUT"))
            /\ UNCHANGED purl
    /\ UNCHANGED <<pin, pfile, pclicks>>
    /\ UnchangedOthers

\* What follows the last click: the wait of line 191.
AfterSchedule == IF pin.confirm # "false" THEN "confirm" ELSE "wait"

\* Lines 181-189 and 297-303: the publish button is clicked or not found; then
\* the schedule time is parsed when one was given.
POpen(found) ==
    /\ ppc = "open"
    /\ IF ~found
       THEN /\ PublishThrows(fatal("SELECTOR_CHANGED"))
            /\ UNCHANGED pclicks
       ELSE /\ pclicks' = Append(pclicks, "open")
            /\ IF pin.scheduleTime = None
               THEN ppc' = AfterSchedule /\ UNCHANGED pout
               ELSE IF ~IsValidDate(pin.scheduleTime)
                    THEN PublishThrows(fatal("VALIDATION_ERROR"))
                    ELSE ppc' = "scheduleOpen" /\ UNCHANGED pout
    /\ UNCHANGED <<pin, pfile, purl>>
    /\ UnchangedOthers

\* Line 303: the schedule switch is clicked or not found.
PScheduleOpen(found) ==
    /\ ppc = "scheduleOpen"
    /\ IF ~found
       THEN /\ PublishThrows(fatal("SELECTOR_CHANGED"))
            /\ UNCHANGED pclicks
       ELSE /\ pclicks' = Append(pclicks, "schedule")
            /\ ppc' = "scheduleFill"
            /\ UNCHANGED pout
    /\ UNCHANGED <<pin, pfile, purl>>
    /\ UnchangedOthers

\* Lines 305-314: the time input is filled or not found.
PScheduleFill(found) ==
    /\ ppc = "scheduleFill"
    /\ IF ~found
       THEN /\ PublishThrows(fatal("SELECTOR_CHANGED"))
            /\ UNCHANGED pclicks
       ELSE /\ pclicks' = Append(pclicks, "fill")
            /\ ppc' = AfterSchedule
            /\ UNCHANGED pout
    /\ UNCHANGED <<pin, pfile, purl>>
    /\ UnchangedOthers

\* Lines 187-189: the confirm button is clicked or not found.
PConfirm(found) ==
    /\ ppc = "confirm"
    /\ IF ~found
       THEN /\ PublishThrows(fatal("SELECTOR_CHANGED"))
            /\ UNCHANGED pclicks
       ELSE /\ pclicks' = Append(pclicks, "confirm")
            /\ ppc' = "wait"
            /\ UNCHANGED pout
    /\ UNCHANGED <<pin, pfile, purl>>
    /\ UnchangedOthers

\* Lines 191-206: after the wait the page URL is read; no article id in it is
\* PUBLISH_FAILED, otherwise the id and the URL are returned.
PWait(url) ==
    /\ ppc = "wait"
    /\ purl' = url
    /\ IF extractArticleId(url) = None
       THEN PublishThrows(retryable("PUBLISH_FAILED"))
       ELSE /\ ppc' = "done"
            /\ pout' = [NoPublishOut EXCEPT !.kind = "returned",
                                            !.articleId = extractArticleId(url),
                                            !.articleUrl = url]
    /\ UNCHANGED <<pin, pfile, pclicks>>
    /\ UnchangedOthers

PublishInit ==
    /\ ppc = "idle"
    /\ pin = PublishInput(None, "undefined", None)
    /\ pfile \in {FileMissing, FileCorrupt,
                  FileOf({IndexEntry("h", "7001", <<"editor", "drafts", "7001">>, 1)}),
                  FileOf({IndexEntry("h", "7001", HomeUrl, 1)})}
    /\ purl = BlankUrl
    /\ pout = NoPublishOut
    /\ pclicks = <<>>

InitPublish ==
    /\ EngineIdle /\ DraftIdle /\ LocIdle /\ StoreIdle /\ ResultIdle /\ PublishInit
    /\ ManagerIdle /\ LoginIdle /\ RecorderIdle /\ GotoIdle /\ GuardIdle

NextPublish ==
    \/ \E input \in PublishInputs : PStart(input)
    \/ \E loggedIn \in BOOLEAN : PLogin(loggedIn)
    \/ \E ok \in BOOLEAN : PGoto(ok)
    \/ \E found \in BOOLEAN : POpen(found)
    \/ \E found \in BOOLEAN : PScheduleOpen(found)
    \/ \E found \in BOOLEAN : PScheduleFill(found)
    \/ \E found \in BOOLEAN : PConfirm(found)
    \/ \E url \in UrlsAfterPublish(purl) : PWait(url)

SpecPublish == InitPublish /\ [][NextPublish]_vars

\* The clicks publishDraft has to perform for its input were all performed.
PublishClicksDone ==
    LET performed == {pclicks[i] : i \in 1..Len(pclicks)}
    IN /\ "open" \in performed
       /\ (pin.scheduleTime # None => {"schedule", "fill"} \subseteq performed)
       /\ (pin.confirm # "false" => "confirm" \in performed)
       /\ ppc \in {"done", "failed"}

\* The segment after a `post` or `article` segment of the URL.
IdSegments(url) ==
    {url[i + 1] : i \in {j \in 1..(Len(url) - 1) : url[j] \in {"post", "article"}}}

\* C21: once the publish clicks were performed, a page URL without an article
\* id makes publishDraft throw the retryable ToolError PUBLISH_FAILED, which the
\* engine turns into a result with status retryable_error and ok = false; an
\* article id is returned only when the URL carries it.
C21_UnconfirmedPublishIsRetryable ==
    /\ (PublishClicksDone /\ extractArticleId(purl) = None) =>
           /\ pout.kind = "thrown"
           /\ pout.error = ToolError("retryable_error", "PUBLISH_FAILED")
           /\ ~shouldCaptureArtifacts(pout.error)
           /\ toolErrorResult("trace-1", pout.error, {}).status = "retryable_error"
           /\ toolErrorResult("trace-1", pout.error, {}).code = "PUBLISH_FAILED"
           /\ ~toolErrorResult("trace-1", pout.error, {}).ok
    /\ (pout.kind = "returned") =>
           /\ pout.articleId \in IdSegments(purl)
           /\ pout.articleUrl = purl
           /\ PublishClicksDone

\* C21 witness: open and confirm were clicked, the page stayed on the editor
\* URL and the call threw.
C21_Witness ==
    /\ pclicks = <<"open", "confirm">>
    /\ ppc = "failed"
    /\ extractArticleId(purl) = None
    /\ purl = <<"editor", "drafts", "7001">>
    /\ pout.error.code = "PUBLISH_FAILED"


(***************************************************************************)
(* SessionManager (src/session/SessionManager.ts)                          *)
(***************************************************************************)
MaxSessionCalls == 3

DEFAULT_TIMEOUT_MS == 45000
DEFAULT_LOCALE == "zh-CN"
COOKIE_FILE_VERSION == 1

\* An optional timeoutMs that was not given.
NoTimeout == 0

\* SessionInitInput; headless is "undefined", "true" or "false", an absent
\* locale or proxy is None.
SessionInitInput(userDataDir, headless, locale, timeoutMs, proxy) ==
    [userDataDir |-> userDataDir, headless |-> headless, locale |-> locale,
     timeoutMs |-> timeoutMs, proxy |-> proxy]

SessionInitInputs ==
    { SessionInitInput("d1", "undefined", None, NoTimeout, None),
      SessionInitInput("d1", "false", "zh-CN", 45000, "  "),
      SessionInitInput("d2", "undefined", None, NoTimeout, None),
      SessionInitInput("d1", "true", None, NoTimeout, None),
      SessionInitInput("d1", "undefined", "en-US", NoTimeout, None),
      SessionInitInput("d1", "undefined", None, 1000, None),
      SessionInitInput("d1", "undefined", None, NoTimeout, "http://p:8080"),
      SessionInitInput("d1", "undefined", None, NoTimeout, " http://p:8080 "),
      SessionInitInput("d1", "undefined", None, NoTimeout, "not a url") }

UserDataDirs == {"d1", "d2"}

\* String.prototype.trim on the proxy strings of the model.
Trim(str) ==
    CASE str = "  "              -> ""
      [] str = " http://p:8080 " -> "http://p:8080"
      [] OTHER                   -> str

\* new URL(proxy) succeeds
IsUrl(str) == str = "http://p:8080"

\* SessionInfo; `defined` is FALSE for undefined.
NoSessionInfo ==
    [defined |-> FALSE, userDataDir |-> None, headless |-> FALSE, locale |-> None,
     timeoutMs |-> NoTimeout, proxy |-> None]

\* Lines 312-318: the defaults of init.
normalizedInput(input) ==
    [defined     |-> TRUE,
     userDataDir |-> input.userDataDir,
     headless    |-> IF input.headless = "undefined" THEN FALSE
                     ELSE input.headless = "true",
     locale      |-> IF input.locale = None THEN DEFAULT_LOCALE ELSE input.locale,
     timeoutMs   |-> IF input.timeoutMs = NoTimeout THEN DEFAULT_TIMEOUT_MS
                     ELSE input.timeoutMs,
     proxy       |-> IF input.proxy = None \/ Trim(input.proxy) = "" THEN None
                     ELSE Trim(input.proxy)]

sameSessionDirOnly(info, input) ==
    info.defined /\ info.userDataDir = input.userDataDir

\* SessionManager.isSameSession
sameSession(info, input) ==
    /\ info.defined
    /\ info.userDataDir = input.userDataDir
    /\ info.headless = input.headless
    /\ info.locale = input.locale
    /\ info.timeoutMs = input.timeoutMs
    /\ info.proxy = input.proxy

\* Cookies: a present url, domain or path is a non-empty string, "" stands for
\* an absent or empty one; an absent value is None.
Cookie(name, value, domain, path) ==
    [name |-> name, value |-> value, url |-> "", domain |-> domain, path |-> path]

CookieSid  == Cookie("sid_tt", "cookie-value", ".juejin.cn", "/")
CookieCsrf == Cookie("csrf", "", ".juejin.cn", "/")
CookieNameless == Cookie("", "flag", ".juejin.cn", "/")
CookieNoPath == Cookie("sid_tt", "cookie-value", ".juejin.cn", "")
CookieNoValue == Cookie("sid_tt", None, ".juejin.cn", "/")

\* The cookie lists context.cookies() may return: the browser also stores
\* cookies that were set without a name.
Jars == {<<>>, <<CookieSid>>, <<CookieSid, CookieCsrf>>, <<CookieSid, CookieNameless>>}

hasCookieLocation(value) ==
    value.url # "" \/ (value.domain # "" /\ value.path # "")

isCookieCandidate(value) ==
    /\ value.name # ""
    /\ value.value # None
    /\ hasCookieLocation(value)

\* A parsed JSON value: an array, an object with or without a `cookies` array,
\* or anything else.
JsonArray(items)    == [kind |-> "array", items |-> items]
JsonCookies(items)  == [kind |-> "object", items |-> items]
JsonOtherObject     == [kind |-> "objectWithoutCookies", items |-> <<>>]
JsonScalar          == [kind |-> "scalar", items |-> <<>>]

readCookieArrayFromPayloadUnchecked(payload) ==
    [ok |-> TRUE, cookies |-> payload.items]

\* readCookieArrayFromPayload: the array, or undefined (ok = FALSE).
readCookieArrayFromPayload(payload) ==
    IF payload.kind \notin {"array", "object"}
    THEN [ok |-> FALSE, cookies |-> <<>>]
    ELSE IF \A i \in 1..Len(payload.items) : isCookieCandidate(payload.items[i])
         THEN [ok |-> TRUE, cookies |-> payload.items]
         ELSE [ok |-> FALSE, cookies |-> <<>>]

\* The cookie file: missing (ENOENT), unreadable, text that is no JSON, or JSON.
CookieFileMissing    == [state |-> "missing", payload |-> JsonScalar]
CookieFileUnreadable == [state |-> "unreadable", payload |-> JsonScalar]
CookieFileNotJson    == [state |-> "notJson", payload |-> JsonScalar]
CookieFileJson(payload) == [state |-> "json", payload |-> payload]

\* No file has been read by the call so far.
CookieFileUnread == [state |-> "unread", payload |-> JsonScalar]

\* JSON.stringify({version, savedAt, cookies}) read back by JSON.parse.
PersistedCookieFile(cookies) == CookieFileJson(JsonCookies(cookies))

CookieFilesAtStart ==
    { CookieFileMissing, CookieFileUnreadable, CookieFileNotJson,
      CookieFileJson(JsonScalar), CookieFileJson(JsonOtherObject),
      CookieFileJson(JsonArray(<<CookieSid>>)),
      CookieFileJson(JsonCookies(<<>>)),
      CookieFileJson(JsonCookies(<<CookieSid, CookieNoPath>>)),
      CookieFileJson(JsonCookies(<<CookieNoValue>>)),
      CookieFileJson(JsonCookies(<<CookieSid>>)) }

NoContext == [defined |-> FALSE, id |-> 0, jar |-> <<>>, added |-> <<>>]

NoManagerResult == [kind |-> "none", session |-> NoSessionInfo, error |-> NoError]

NoManagerCall ==
    [op |-> "none", pc |-> "idle", input |-> NoSessionInfo, events |-> <<>>,
     contextBefore |-> NoContext, sessionBefore |-> NoSessionInfo,
     file |-> CookieFileUnread, cookies |-> <<>>, result |-> NoManagerResult]

NoPersisted == [dir |-> None, cookies |-> <<>>]

ManagerAtRest == mcall.pc \in {"idle", "returned", "threw"}

BeginCall(op, input, at) ==
    /\ ManagerAtRest
    /\ mstats.calls < MaxSessionCalls
    /\ mstats' = [mstats EXCEPT !.calls = @ + 1]
    /\ mcall' = [NoManagerCall EXCEPT !.op = op, !.pc = at, !.input = input,
                                      !.contextBefore = mcontext,
                                      !.sessionBefore = msession]

ManagerReturns(call, info) ==
    mcall' = [call EXCEPT !.pc = "returned",
                          !.result = [NoManagerResult EXCEPT !.kind = "returned",
                                                             !.session = info]]

ManagerThrows(call, err) ==
    mcall' = [call EXCEPT !.pc = "threw",
                          !.result = [NoManagerResult EXCEPT !.kind = "threw",
                                                             !.error = err]]

UnchangedFlows ==
    /\ UnchangedEngine /\ UnchangedDraft /\ UnchangedLoc /\ UnchangedStore
    /\ UnchangedResult /\ UnchangedPublish /\ UnchangedLogin /\ UnchangedRecorder /\ UnchangedGoto /\ UnchangedGuard

\* init, lines 311-320: the input is normalised and mkdir is awaited.
MInit(input) ==
    /\ BeginCall("init", normalizedInput(input), "mkdir")
    /\ UNCHANGED <<mcontext, msession, mfiles>>
    /\ UnchangedFlows

\* Lines 349-352 with parseProxy: what follows close() in init.
AfterClose(call) ==
    IF call.input.proxy # None /\ ~IsUrl(call.input.proxy)
    THEN ManagerThrows(call, fatal("VALIDATION_ERROR"))
    ELSE mcall' = [call EXCEPT !.pc = "launch"]

\* Lines 320-326: mkdir resolved or failed; the same-session shortcut returns the
\* stored session, otherwise close() runs, awaiting context.close() when a
\* context exists.
MInitMkdir(ok) ==
    /\ mcall.pc = "mkdir"
    /\ IF ~ok
       THEN ManagerThrows(mcall, OtherError) /\ UNCHANGED msession
       ELSE IF mcontext.defined /\ sameSession(msession, mcall.input)
            THEN ManagerReturns(mcall, msession) /\ UNCHANGED msession
            ELSE IF mcontext.defined
                 THEN mcall' = [mcall EXCEPT !.pc = "closing"] /\ UNCHANGED msession
                 ELSE msession' = NoSessionInfo /\ AfterClose(mcall)
    /\ UNCHANGED <<mcontext, mfiles, mstats>>
    /\ UnchangedFlows

\* close, lines 402-415, inside init: the context is closed (errors are
\* swallowed), context and session become undefined.
MInitClosed ==
    /\ mcall.pc = "closing"
    /\ mcall.op = "init"
    /\ mcontext' = NoContext
    /\ msession' = NoSessionInfo
    /\ AfterClose([mcall EXCEPT !.events = Append(@, "close")])
    /\ UNCHANGED <<mfiles, mstats>>
    /\ UnchangedFlows

\* Lines 337-359: launchPersistentContext resolved or failed; with a page at
\* hand the session is stored in the same segment.
MInitLaunch(ok, hasPage, jar) ==
    /\ mcall.pc = "launch"
    /\ IF ~ok
       THEN /\ ManagerThrows(mcall, OtherError)
            /\ UNCHANGED <<mcontext, msession, mstats>>
       ELSE /\ mcontext' = [defined |-> TRUE, id |-> mstats.launches + 1,
                            jar |-> jar, added |-> <<>>]
            /\ mstats' = [mstats EXCEPT !.launches = @ + 1]
            /\ mcall' = [mcall EXCEPT !.events = Append(@, "launch"),
                                      !.pc = IF hasPage THEN "dirs" ELSE "page"]
            /\ msession' = IF hasPage THEN mcall.input ELSE msession
    /\ UNCHANGED mfiles
    /\ UnchangedFlows

\* Lines 346-356: newPage() resolved or failed.
MInitPage(ok) ==
    /\ mcall.pc = "page"
    /\ IF ~ok
       THEN ManagerThrows(mcall, OtherError) /\ UNCHANGED msession
       ELSE mcall' = [mcall EXCEPT !.pc = "dirs"] /\ msession' = mcall.input
    /\ UNCHANGED <<mcontext, mfiles, mstats>>
    /\ UnchangedFlows

\* Lines 358-361: the three mkdir calls; then restoreCookiesFromFileIfExists
\* starts and awaits readFile.
MInitDirs(ok) ==
    /\ mcall.pc = "dirs"
    /\ IF ~ok
       THEN ManagerThrows(mcall, OtherError)
       ELSE mcall' = [mcall EXCEPT !.pc = "restoreRead"]
    /\ UNCHANGED <<mcontext, msession, mfiles, mstats>>
    /\ UnchangedFlows

\* restoreCookiesFromFileIfExists called on its own, lines 223-231.
MRestore ==
    /\ BeginCall("restore", NoSessionInfo,
                 IF mcontext.defined /\ msession.defined THEN "restoreRead" ELSE "returned")
    /\ UNCHANGED <<mcontext, msession, mfiles>>
    /\ UnchangedFlows

\* What the caller of restoreCookiesFromFileIfExists gets when it returns.
RestoreReturns(call) ==
    ManagerReturns(call, IF call.op = "init" THEN msession ELSE NoSessionInfo)

\* Lines 233-277: readFile and JSON.parse, each failure returns; the payload is
\* checked; an empty list returns, any other is handed to addCookies.
MRestoreRead ==
    /\ mcall.pc = "restoreRead"
    /\ LET file  == mfiles[msession.userDataDir]
           call  == [mcall EXCEPT !.file = file]
           array == readCookieArrayFromPayload(file.payload)
       IN IF file.state # "json" \/ ~array.ok \/ array.cookies = <<>>
          THEN RestoreReturns(call)
          ELSE mcall' = [call EXCEPT !.pc = "restoreAdd", !.cookies = array.cookies]
    /\ UNCHANGED <<mcontext, msession, mfiles, mstats>>
    /\ UnchangedFlows

\* The jar after addCookies: cookies of the same name, domain and path are
\* replaced, the others are added.
JarWith(jar, cookies) ==
    LET same(a, b) == a.name = b.name /\ a.domain = b.domain /\ a.path = b.path
    IN SelectSeq(jar, LAMBDA c : \A i \in 1..Len(cookies) : ~same(c, cookies[i]))
       \o cookies

\* Lines 279-287: addCookies resolved or rejected.
MRestoreAdd(ok) ==
    /\ mcall.pc = "restoreAdd"
    /\ IF ~ok
       THEN ManagerThrows(mcall, OtherError) /\ UNCHANGED mcontext
       ELSE /\ mcontext' = [mcontext EXCEPT !.added = Append(@, mcall.cookies),
                                            !.jar = JarWith(@, mcall.cookies)]
            /\ RestoreReturns(mcall)
    /\ UNCHANGED <<msession, mfiles, mstats>>
    /\ UnchangedFlows

\* persistCookies, lines 290-308: the guards, then context.cookies() is awaited.
MPersist ==
    /\ BeginCall("persist", NoSessionInfo, "persistCookies")
    /\ mcontext.defined /\ msession.defined
    /\ UNCHANGED <<mcontext, msession, mfiles>>
    /\ UnchangedFlows

\* persistCookies on a manager that is not initialised throws NOT_LOGGED_IN.
MPersistRefused ==
    /\ ManagerAtRest
    /\ mstats.calls < MaxSessionCalls
    /\ ~(mcontext.defined /\ msession.defined)
    /\ mstats' = [mstats EXCEPT !.calls = @ + 1]
    /\ ManagerThrows([NoManagerCall EXCEPT !.op = "persist"], fatal("NOT_LOGGED_IN"))
    /\ UNCHANGED <<mcontext, msession, mfiles>>
    /\ UnchangedFlows

\* Lines 308-315: cookies() resolved or rejected; writeFile is awaited.
MPersistCookies(ok) ==
    /\ mcall.pc = "persistCookies"
    /\ IF ~ok
       THEN ManagerThrows(mcall, OtherError)
       ELSE mcall' = [mcall EXCEPT !.pc = "persistWrite", !.cookies = mcontext.jar]
    /\ UNCHANGED <<mcontext, msession, mfiles, mstats>>
    /\ UnchangedFlows

\* Lines 315-328: writeFile resolved or failed.
MPersistWrite(ok) ==
    /\ mcall.pc = "persistWrite"
    /\ IF ~ok
       THEN ManagerThrows(mcall, OtherError) /\ UNCHANGED <<mfiles, mstats>>
       ELSE /\ mfiles' = [mfiles EXCEPT ![msession.userDataDir] =
                             PersistedCookieFile(mcall.cookies)]
            /\ mstats' = [mstats EXCEPT !.persisted =
                             [dir |-> msession.userDataDir, cookies |-> mcall.cookies]]
            /\ ManagerReturns(mcall, NoSessionInfo)
    /\ UNCHANGED <<mcontext, msession>>
    /\ UnchangedFlows

\* close called on its own, lines 402-415.
MClose ==
    /\ BeginCall("close", NoSessionInfo, IF mcontext.defined THEN "closing" ELSE "returned")
    /\ msession' = IF mcontext.defined THEN msession ELSE NoSessionInfo
    /\ UNCHANGED <<mcontext, mfiles>>
    /\ UnchangedFlows

MClosed ==
    /\ mcall.pc = "closing"
    /\ mcall.op = "close"
    /\ mcontext' = NoContext
    /\ msession' = NoSessionInfo
    /\ ManagerReturns([mcall EXCEPT !.events = Append(@, "close")], NoSessionInfo)
    /\ UNCHANGED <<mfiles, mstats>>
    /\ UnchangedFlows

ManagerInit ==
    /\ mcontext = NoContext
    /\ msession = NoSessionInfo
    /\ \E f \in CookieFilesAtStart :
          mfiles = [d \in UserDataDirs |-> IF d = "d1" THEN f ELSE CookieFileMissing]
    /\ mcall = NoManagerCall
    /\ mstats = [calls |-> 0, launches |-> 0, persisted |-> NoPersisted]

InitManager ==
    /\ EngineIdle /\ DraftIdle /\ LocIdle /\ StoreIdle /\ ResultIdle /\ PublishIdle
    /\ ManagerInit /\ LoginIdle /\ RecorderIdle /\ GotoIdle /\ GuardIdle

NextManager ==
    \/ \E input \in SessionInitInputs : MInit(input)
    \/ \E ok \in BOOLEAN : MInitMkdir(ok)
    \/ MInitClosed
    \/ \E ok \in BOOLEAN, hasPage \in BOOLEAN, jar \in Jars : MInitLaunch(ok, hasPage, jar)
    \/ \E ok \in BOOLEAN : MInitPage(ok)
    \/ \E ok \in BOOLEAN : MInitDirs(ok)
    \/ MRestore
    \/ MRestoreRead
    \/ \E ok \in BOOLEAN : MRestoreAdd(ok)
    \/ MPersist
    \/ MPersistRefused
    \/ \E ok \in BOOLEAN : MPersistCookies(ok)
    \/ \E ok \in BOOLEAN : MPersistWrite(ok)
    \/ MClose
    \/ MClosed

SpecManager == InitManager /\ [][NextManager]_vars


\* The init call in progress, or just finished, started on a live session.
StartedOnLiveSession == mcall.contextBefore.defined /\ mcall.sessionBefore.defined

\* Its parameters, defaults filled in, are those of the session it started on.
SameParameters ==
    /\ mcall.sessionBefore.userDataDir = mcall.input.userDataDir
    /\ mcall.sessionBefore.headless = mcall.input.headless
    /\ mcall.sessionBefore.locale = mcall.input.locale
    /\ mcall.sessionBefore.timeoutMs = mcall.input.timeoutMs
    /\ mcall.sessionBefore.proxy = mcall.input.proxy

IsPrefix(a, b) == Len(a) <= Len(b) /\ a = SubSeq(b, 1, Len(a))

\* C22: init with the parameters of the live session neither closes nor
\* launches, leaves context and session as they were and returns the existing
\* session; init with a differing parameter launches only after it has closed
\* the existing context, and what it returns is the session of the new launch.
C22_InitIsIdempotent ==
    mcall.op = "init" =>
        IF StartedOnLiveSession /\ SameParameters
        THEN /\ mcall.events = <<>>
             /\ mcontext = mcall.contextBefore
             /\ msession = mcall.sessionBefore
             /\ (mcall.pc = "returned" => mcall.result.session = mcall.sessionBefore)
        ELSE /\ IsPrefix(mcall.events,
                         IF mcall.contextBefore.defined
                         THEN <<"close", "launch">> ELSE <<"launch">>)
             /\ (mcall.pc = "returned" =>
                    /\ mcall.events # <<>>
                    /\ mcall.events[Len(mcall.events)] = "launch"
                    /\ mcontext.defined
                    /\ mcontext.id # mcall.contextBefore.id
                    /\ mcall.result.session = mcall.input)

\* C22 witness: an init that spelled out the defaults of the live session has
\* returned without closing or launching.
C22_Witness ==
    /\ mcall.op = "init"
    /\ mcall.pc = "returned"
    /\ StartedOnLiveSession
    /\ SameParameters
    /\ mcall.events = <<>>
    /\ mstats.launches = 1


\* The call in progress, or just finished, ran restoreCookiesFromFileIfExists
\* far enough to have read the cookie file.
RestoreHasRead == mcall.op \in {"init", "restore"} /\ mcall.file.state # "unread"

\* The addCookies calls the context saw before the restore started.
AddedBeforeRestore == IF mcall.op = "init" THEN <<>> ELSE mcall.contextBefore.added

\* The file read is the one persistCookies wrote last for this directory.
ReadsPersistedFile ==
    /\ RestoreHasRead
    /\ mstats.persisted.dir = msession.userDataDir
    /\ mstats.persisted.cookies # <<>>

\* C23: a restore that follows persistCookies on the same user data directory
\* hands the context the persisted (non-empty) cookie list, unchanged, in one
\* addCookies call.
C23_PersistThenRestoreRoundTrip ==
    (ReadsPersistedFile /\ mcall.pc = "returned") =>
        mcontext.added = Append(AddedBeforeRestore, mstats.persisted.cookies)

\* A cookie file that is missing, unreadable, no JSON, or no list of cookies
\* that each have a name, a value and a location.
UnusableCookieFile(f) ==
    \/ f.state \in {"missing", "unreadable", "notJson"}
    \/ /\ f.state = "json"
       /\ \/ f.payload.kind \notin {"array", "object"}
          \/ \E i \in 1..Len(f.payload.items) :
                \/ f.payload.items[i].name = ""
                \/ f.payload.items[i].value = None
                \/ /\ f.payload.items[i].url = ""
                   /\ (f.payload.items[i].domain = "" \/ f.payload.items[i].path = "")

\* C24: with a missing, unreadable or malformed cookie file the restore returns
\* normally, hands no cookie to the context, and context and session stay.
C24_UnusableCookieFileIsIgnored ==
    (RestoreHasRead /\ UnusableCookieFile(mcall.file)) =>
        /\ mcall.pc = "returned"
        /\ mcall.result.kind = "returned"
        /\ mcall.cookies = <<>>
        /\ mcontext.added = AddedBeforeRestore
        /\ mcontext.defined
        /\ msession.defined
        /\ (mcall.op = "restore" =>
               mcontext = mcall.contextBefore /\ msession = mcall.sessionBefore)

\* C24 witness: restoreCookiesFromFileIfExists, called on a live session whose
\* cookie file is not JSON, has returned.
C24_Witness ==
    /\ mcall.op = "restore"
    /\ mcall.file.state = "notJson"
    /\ mcall.pc = "returned"
    /\ mcontext.defined


\* ======================================================================
\* LoginFlow.getSessionStatus and LoginFlow.ensureLogin
\* (src/flows/LoginFlow.ts, lines 84-154, 280-374)
\* ======================================================================

MaxLoginCalls == 2

\* ensure_login's schema admits "sms", "qr" and "auto"; the default is "auto".
Preferred == {"sms", "qr", "auto"}

\* isLoggedIn, lines 281-285: the three selectors tried in order.
loggedInSelectors ==
    << "role:button:write-article|creator-center",
       "css:img[src*='avatar'], img[alt*='avatar']",
       "css:a[href*='user']" >>

NoUser == [nickname |-> None, uid |-> None, avatarUrl |-> None]

\* What page.evaluate hands back in readCurrentUser (or the catch's empty user).
RawUsers ==
    { [nickname |-> "", uid |-> "", avatarUrl |-> ""],
      [nickname |-> "arlo", uid |-> "42", avatarUrl |-> "https://p.example/avatar.png"],
      [nickname |-> "arlo", uid |-> "", avatarUrl |-> ""] }

\* Lines 364-373: empty nickname and uid become "unknown".
userSnapshot(rawUser) ==
    [nickname  |-> IF rawUser.nickname = "" THEN "unknown" ELSE rawUser.nickname,
     uid       |-> IF rawUser.uid = "" THEN "unknown" ELSE rawUser.uid,
     avatarUrl |-> rawUser.avatarUrl]

SessionStatus(loggedIn, user, expiresHint) ==
    [loggedIn |-> loggedIn, user |-> user, expiresHint |-> expiresHint]

NoStatus == SessionStatus(FALSE, NoUser, None)

\* An action hint as its words.
QrHints ==
    << <<"call", "login_get_qr_code">>,
       <<"scan", "qr", "with", "juejin", "app", "in", "visible", "browser">>,
       <<"then", "call", "session_status", "or", "ensure_login", "to", "confirm">> >>

NoNext == [method |-> None, actionHints |-> <<>>]

NoLoginResult == [kind |-> None, loggedIn |-> FALSE, user |-> NoUser, next |-> NoNext]

\* Lines 144-153: the next step ensureLogin returns when not logged in.
ensureLoginNext == [method |-> "qr", actionHints |-> QrHints]

NoLoginCall ==
    [op |-> None, pc |-> "idle", preferred |-> None, initialized |-> FALSE,
     selector |-> 0, status |-> NoStatus, result |-> NoLoginResult]

UnchangedAllButLogin ==
    /\ UnchangedEngine /\ UnchangedDraft /\ UnchangedLoc /\ UnchangedStore
    /\ UnchangedResult /\ UnchangedPublish /\ UnchangedManager /\ UnchangedRecorder /\ UnchangedGoto /\ UnchangedGuard

\* Lines 132-154 (and 84-125 for a bare session_status): what follows once
\* getSessionStatus has its status.
StatusKnown(call, trace, status) ==
    IF call.op = "getSessionStatus"
    THEN /\ lcall' = [call EXCEPT !.pc = "returned", !.status = status,
                                  !.result = [NoLoginResult EXCEPT
                                                 !.kind = "status",
                                                 !.loggedIn = status.loggedIn,
                                                 !.user = status.user]]
         /\ ltrace' = trace
    ELSE IF status.loggedIn /\ status.user # NoUser
    THEN /\ lcall' = [call EXCEPT !.pc = "returned", !.status = status,
                                  !.result = [NoLoginResult EXCEPT
                                                 !.kind = "ensure",
                                                 !.loggedIn = TRUE,
                                                 !.user = status.user]]
         /\ ltrace' = trace
    ELSE /\ lcall' = [call EXCEPT !.pc = "returned", !.status = status,
                                  !.result = [NoLoginResult EXCEPT
                                                 !.kind = "ensure",
                                                 !.loggedIn = FALSE,
                                                 !.next = ensureLoginNext]]
         /\ ltrace' = Append(trace,
                             Step("login.ensure", call.preferred, "qr login required"))

\* Lines 84-93 and 128-132: a call starts; without an initialised session the
\* status is "not logged in" at once.
LStart(op, preferred, initialized) ==
    /\ lcall.pc \in {"idle", "returned"}
    /\ lcount < MaxLoginCalls
    /\ lcount' = lcount + 1
    /\ LET call == [NoLoginCall EXCEPT !.op = op, !.preferred = preferred,
                                       !.initialized = initialized]
       IN  IF ~initialized
           THEN StatusKnown(call, <<>>, SessionStatus(FALSE, NoUser, "unknown"))
           ELSE /\ lcall' = [call EXCEPT !.pc = "goto"]
                /\ ltrace' = <<>>
    /\ UnchangedAllButLogin

\* Lines 93-100: gotoWithRetry to baseUrl; its failure is swallowed.
LGoto(ok) ==
    /\ lcall.pc = "goto"
    /\ lcall' = [lcall EXCEPT !.pc = "check", !.selector = 1]
    /\ ltrace' = Append(ltrace, Step("goto", "baseUrl", IF ok THEN "loaded" ELSE "timeout"))
    /\ UNCHANGED lcount
    /\ UnchangedAllButLogin

\* isLoggedIn, lines 287-313, one selector per step; lines 101-109 when none of
\* the selectors is visible.
LCheck(visible) ==
    /\ lcall.pc = "check"
    /\ LET label   == loggedInSelectors[lcall.selector]
           checked == Append(ltrace, Step("login.check", label, "checking visibility"))
       IN  IF visible
           THEN /\ lcall' = [lcall EXCEPT !.pc = "user"]
                /\ ltrace' = Append(checked,
                                    Step("login.state", label, "login state confirmed"))
           ELSE IF lcall.selector < Len(loggedInSelectors)
           THEN /\ lcall' = [lcall EXCEPT !.selector = @ + 1]
                /\ ltrace' = checked
           ELSE StatusKnown(lcall, checked, SessionStatus(FALSE, NoUser, "unknown"))
    /\ UNCHANGED lcount
    /\ UnchangedAllButLogin

\* Lines 111 and 334-374: readCurrentUser.
LUser(rawUser) ==
    /\ lcall.pc = "user"
    /\ LET user == userSnapshot(rawUser)
       IN  /\ lcall' = [lcall EXCEPT !.pc = "persist",
                                     !.status = SessionStatus(TRUE, user, "persistent")]
           /\ ltrace' = Append(ltrace, Step("login.user", user.uid, user.nickname))
    /\ UNCHANGED lcount
    /\ UnchangedAllButLogin

\* Lines 112-125: persistCookies, whose failure is swallowed, then the status.
LPersist(ok) ==
    /\ lcall.pc = "persist"
    /\ StatusKnown(lcall,
                   IF ok
                   THEN Append(ltrace, Step("login.cookie.persist", "cookies.json", "cookieCount"))
                   ELSE ltrace,
                   lcall.status)
    /\ UNCHANGED lcount
    /\ UnchangedAllButLogin

LoginInit ==
    /\ lcall = NoLoginCall
    /\ ltrace = <<>>
    /\ lcount = 0

InitLogin ==
    /\ EngineIdle /\ DraftIdle /\ LocIdle /\ StoreIdle /\ ResultIdle /\ PublishIdle
    /\ ManagerIdle /\ LoginInit /\ RecorderIdle /\ GotoIdle /\ GuardIdle

NextLogin ==
    \/ \E op \in {"getSessionStatus", "ensureLogin"}, preferred \in Preferred,
          initialized \in BOOLEAN : LStart(op, preferred, initialized)
    \/ \E ok \in BOOLEAN : LGoto(ok)
    \/ \E visible \in BOOLEAN : LCheck(visible)
    \/ \E rawUser \in RawUsers : LUser(rawUser)
    \/ \E ok \in BOOLEAN : LPersist(ok)

SpecLogin == InitLogin /\ [][NextLogin]_vars

\* ensureLogin, asked for qr or auto, has returned "not logged in".
EnsureLoginNeedsLogin ==
    /\ lcall.op = "ensureLogin"
    /\ lcall.pc = "returned"
    /\ lcall.preferred \in {"qr", "auto"}
    /\ ~lcall.result.loggedIn

HintsName(hints, tool) ==
    \E i \in 1..Len(hints) : \E j \in 1..Len(hints[i]) : hints[i][j] = tool

\* C25: when the user is not logged in or the session is not initialised,
\* ensureLogin(qr | auto) returns loggedIn=false and a next step whose method is
\* sms and whose action hints name login_send_sms_code.
C25_EnsureLoginPointsAtSms ==
    EnsureLoginNeedsLogin =>
        /\ lcall.result.next.method = "sms"
        /\ HintsName(lcall.result.next.actionHints, "login_send_sms_code")


\* ======================================================================
\* TraceRecorder on its own: record / setTracesRoot / complete called in any
\* order on one recorder (src/observability/TraceStore.ts, lines 482-531)
\* ======================================================================

MaxRecorderCalls == 4

\* The outcomes complete is called with: status, code and message of a result.
Outcome(status, code, message) == [status |-> status, code |-> code, message |-> message]

Outcomes ==
    { Outcome("success", "OK", "done"),
      Outcome("fatal_error", "UNKNOWN", "boom") }

RecorderRoots == {None, "/data/traces"}

NoRecorderCall ==
    [op |-> None, pc |-> "idle", outcome |-> Outcome(None, None, None),
     before |-> NoRecord, settled |-> FALSE]

\* TraceRecorder.record as a variant that ignores calls on a completed trace.
recordUnlessFinished(r, action, target, note) ==
    IF r.data.finished THEN r
    ELSE [r EXCEPT !.data.steps = Append(@, Step(action, target, note))]

\* TraceRecorder.snapshot as a variant that returns recordData itself.
snapshotObjectLive(r, arrays) == [live |-> TRUE, data |-> r.data, stepsRef |-> 0]

\* TraceRecorder.snapshot as an object of its own, lines 509-514: the fields of
\* recordData copied by the spread, steps a new array (the next one allocated)
\* holding the steps of the moment.
snapshotObject(r, arrays) ==
    [live |-> FALSE, data |-> snapshot(r), stepsRef |-> Len(arrays) + 1]

\* complete returns this.snapshot() (line 529); runTool hands that object to
\* TraceStore.save, which keeps the reference (lines 546-548).
HandSnapshot(r) ==
    [thist EXCEPT !.handed = Append(@, snapshotObject(r, thist.arrays)),
                  !.arrays = Append(@, r.data.steps)]

RecorderAtRest == tcall.pc \in {"idle", "returned", "threw"}

BeginRecorderCall ==
    /\ RecorderAtRest
    /\ thist.calls < MaxRecorderCalls

UnchangedAllButRecorder ==
    /\ UnchangedEngine /\ UnchangedDraft /\ UnchangedLoc /\ UnchangedStore
    /\ UnchangedResult /\ UnchangedPublish /\ UnchangedManager /\ UnchangedLogin
    /\ UnchangedGoto /\ UnchangedGuard

\* record(action, target, note), lines 500-507.
TRecord(action) ==
    /\ BeginRecorderCall
    /\ trec' = record(trec, action, "target", "")
    /\ tcall' = [NoRecorderCall EXCEPT !.op = "record", !.pc = "returned",
                                       !.before = trec.data]
    /\ thist' = [thist EXCEPT !.calls = @ + 1]
    /\ UNCHANGED tfile
    /\ UnchangedAllButRecorder

\* setTracesRoot(tracesRoot), lines 496-498.
TSetTracesRoot(root) ==
    /\ BeginRecorderCall
    /\ trec' = setTracesRoot(trec, root)
    /\ tcall' = [NoRecorderCall EXCEPT !.op = "setTracesRoot", !.pc = "returned",
                                       !.before = trec.data]
    /\ thist' = [thist EXCEPT !.calls = @ + 1, !.settled = FALSE]
    /\ UNCHANGED tfile
    /\ UnchangedAllButRecorder

\* complete(input), lines 516-521 and 530: the outcome fields are set; without
\* a traces root the snapshot is returned at once.
TComplete(outcome) ==
    /\ BeginRecorderCall
    /\ trec' = completeFields(trec, outcome)
    /\ tcall' = [NoRecorderCall EXCEPT
                    !.op = "complete",
                    !.pc = IF trec.tracesRoot = None THEN "returned" ELSE "writing",
                    !.outcome = outcome,
                    !.before = trec.data,
                    !.settled = thist.settled]
    /\ LET hist == IF trec.tracesRoot = None THEN HandSnapshot(trec') ELSE thist
       IN thist' = [hist EXCEPT !.calls = @ + 1,
                                !.resolved = IF trec.tracesRoot = None THEN @ + 1 ELSE @,
                                !.settled = IF trec.tracesRoot = None THEN TRUE ELSE @]
    /\ UNCHANGED tfile
    /\ UnchangedAllButRecorder

\* complete(input), lines 522-530: mkdir and writeFile, then filePath is set; a
\* failure of either rejects the call with filePath as it was.
TCompleteWrite(ioOk) ==
    /\ tcall.pc = "writing"
    /\ IF ioOk
       THEN LET path == TraceFilePath(trec.tracesRoot, trec.data.traceId)
            IN /\ tfile' = [path |-> path, record |-> trec.data,
                            writes |-> tfile.writes + 1]
               /\ trec' = [trec EXCEPT !.data.filePath = path]
               /\ tcall' = [tcall EXCEPT !.pc = "returned"]
               /\ thist' = [HandSnapshot(trec') EXCEPT !.resolved = @ + 1,
                                                       !.settled = TRUE]
       ELSE /\ tcall' = [tcall EXCEPT !.pc = "threw"]
            /\ UNCHANGED <<trec, tfile, thist>>
    /\ UnchangedAllButRecorder

RecorderInit ==
    /\ \E root \in RecorderRoots : trec = createTrace("t1", "some_tool", root)
    /\ tfile = NoFile
    /\ tcall = NoRecorderCall
    /\ thist = [calls |-> 0, resolved |-> 0, settled |-> FALSE,
                handed |-> <<>>, arrays |-> <<>>]

InitRecorder ==
    /\ EngineIdle /\ DraftIdle /\ LocIdle /\ StoreIdle /\ ResultIdle /\ PublishIdle
    /\ ManagerIdle /\ LoginIdle /\ RecorderInit /\ GotoIdle /\ GuardIdle

NextRecorder ==
    \/ \E action \in {"goto", "click"} : TRecord(action)
    \/ \E root \in RecorderRoots \ {None} : TSetTracesRoot(root)
    \/ \E outcome \in Outcomes : TComplete(outcome)
    \/ \E ioOk \in BOOLEAN : TCompleteWrite(ioOk)

SpecRecorder == InitRecorder /\ [][NextRecorder]_vars

\* A record call has just been made on a trace that complete had already run on.
RecordedAfterComplete ==
    /\ tcall.op = "record"
    /\ tcall.before.finished

\* C27: once complete has run on a recorder the trace record is frozen: a record
\* call made after complete adds no step and changes nothing in the record.
C27_RecordAfterCompleteChangesNothing ==
    RecordedAfterComplete => trec.data = tcall.before


\* A complete call has finished (returned or rejected) on a recorder on which an
\* earlier complete with the same outcome had resolved, the traces root not
\* having been set since.
CompletedAgainSameOutcome ==
    /\ tcall.op = "complete"
    /\ tcall.pc \in {"returned", "threw"}
    /\ tcall.settled
    /\ tcall.before.finished
    /\ tcall.before.status = tcall.outcome.status
    /\ tcall.before.code = tcall.outcome.code
    /\ tcall.before.message = tcall.outcome.message

\* C28: complete is idempotent in effect: a second call with the same outcome
\* leaves the trace's status, code, message, steps and trace-file location as
\* they were after the first call.
C28_CompleteIsIdempotent ==
    CompletedAgainSameOutcome =>
        /\ trec.data.status = tcall.before.status
        /\ trec.data.code = tcall.before.code
        /\ trec.data.message = tcall.before.message
        /\ trec.data.steps = tcall.before.steps
        /\ trec.data.filePath = tcall.before.filePath
        /\ trec.data.finished
        /\ (tcall.pc = "returned" /\ trec.tracesRoot # None)
              => tfile.path = trec.data.filePath

\* C28 witness: complete was called twice with the same outcome on a recorder
\* with a traces root and steps recorded; both calls wrote the trace file.
C28_Witness ==
    /\ CompletedAgainSameOutcome
    /\ tcall.pc = "returned"
    /\ tfile.writes = 2
    /\ Len(trec.data.steps) >= 2
    /\ trec.data.filePath = TraceFilePath("/data/traces", "t1")


(***************************************************************************)
(* Reads and re-saves of the TraceStore (specification SpecStore)          *)
(***************************************************************************)
\* A step in which getLatest or getByTraceId is called.
ReadActs == sread' # NoRead

\* A step in which save is called with a trace id the store holds already.
ResaveActs == sresaves' = sresaves + 1

TraceIdsInOrder(seq) == [i \in 1..Len(seq) |-> seq[i].traceId]

\* C29: eviction follows insertion order only: getLatest and getByTraceId never
\* change the stored records or their order, a save of a stored trace id
\* replaces the record in place without evicting or moving anything, and both
\* reads return absent for an id that is not stored.
C29_EvictionFollowsInsertionOrderOnly ==
    /\ [][ ReadActs => /\ traces' = traces
                      /\ latestTraceId' = latestTraceId ]_vars
    /\ [][ ResaveActs =>
              /\ TraceIdsInOrder(traces') = TraceIdsInOrder(traces)
              /\ \E i \in 1..Len(traces) :
                    /\ traces'[i].traceId = latestTraceId'
                    /\ traces'[i].message = "saved again"
                    /\ \A j \in 1..Len(traces) : j # i => traces'[j] = traces[j] ]_vars
    /\ [](sread.op # None =>
             IF sread.traceId \in StoredIds(traces)
             THEN /\ sread.result # NoRecord
                  /\ sread.result.traceId = sread.traceId
             ELSE sread.result = NoRecord)

\* C29 witness: in a full store whose first record was saved again in place, a
\* read of an id that is not stored returned absent.
C29_Witness ==
    /\ Len(traces) = MAX_IN_MEMORY_TRACES
    /\ traces[1].message = "saved again"
    /\ sread.op = "getByTraceId"
    /\ sread.traceId \notin StoredIds(traces)
    /\ sread.result = NoRecord


(***************************************************************************)
(* Step order of the traces runTool completes (specification Spec)         *)
(***************************************************************************)
StepsWithAction(steps, action) == {i \in 1..Len(steps) : steps[i].action = action}

\* One tool.start, first; one tool.end, last, noting the record's status and
\* code.
BracketedSteps(r) ==
    /\ Len(r.steps) >= 2
    /\ StepsWithAction(r.steps, "tool.start") = {1}
    /\ StepsWithAction(r.steps, "tool.end") = {Len(r.steps)}
    /\ r.steps[Len(r.steps)].note = r.status \o ":" \o r.code

\* C30: the steps of every trace completed by runTool start with exactly one
\* tool.start step and end with exactly one tool.end step whose note is
\* "<status>:<code>" of the returned result; every other step, artifact steps
\* included, lies between the two, and steps are only ever appended.
C30_StepsBracketedByStartAndEnd ==
    /\ [](ReturnedOne =>
             /\ BracketedSteps(ret.saved)
             /\ ret.saved.status = ret.result.status
             /\ ret.saved.code = ret.result.code)
    /\ [](\A i \in 1..Len(traces) : BracketedSteps(traces[i]))
    /\ [](\A c \in Calls :
             /\ (pc[c] = "writing" => BracketedSteps(rec[c].data))
             /\ (traceFiles[c].writes > 0 => BracketedSteps(traceFiles[c].record))
             /\ (rec[c] # NoRecorder =>
                    /\ 1 \in StepsWithAction(rec[c].data.steps, "tool.start")
                    /\ Cardinality(StepsWithAction(rec[c].data.steps, "tool.start")) = 1))
    /\ [][ \A c \in Calls :
              (rec[c] # NoRecorder /\ rec'[c] # NoRecorder)
                 => IsPrefix(rec[c].data.steps, rec'[c].data.steps) ]_vars

\* C30 witness: a call whose failure was captured returned; its trace holds the
\* two artifact steps between tool.start and tool.end.
C30_Witness ==
    /\ ReturnedOne
    /\ Len(ret.saved.steps) = 4
    /\ ret.saved.steps[2].action = "artifact.screenshot"
    /\ ret.saved.steps[3].action = "artifact.html"
    /\ ret.saved.steps[4].note = ret.result.status \o ":" \o ret.result.code
    /\ ret.result.status = "retryable_error"


\* ======================================================================
\* gotoWithRetry (src/flows/ArticleFlow.ts, lines 207-233)
\* ======================================================================

MaxGotoCalls == 2

MaxRetries == 2

\* The retry counts a caller passes: config.retryCount, which the environment
\* may set to zero or below.
RetryCounts == (0 - 1)..MaxRetries

GotoUrls == {"https://juejin.cn", "https://juejin.cn/editor/drafts/new"}

Max(a, b) == IF a >= b THEN a ELSE b

\* Line 214 without the floor of one attempt.
maxAttemptsUnfloored(retries) == retries + 1

\* Line 214: const maxAttempts = Math.max(1, retries + 1)
maxAttempts(retries) == Max(1, retries + 1)

NoGotoCall ==
    [pc |-> "idle", url |-> None, retries |-> 0, maxAttempts |-> 0, attempt |-> 0,
     failed |-> 0, waits |-> 0, stepsBefore |-> 0, error |-> NoError]

\* Line 218: the step recorded at the top of each iteration.
GotoStep(url, attempt, max) ==
    Step("goto", url, "attempt " \o ToString(attempt) \o "/" \o ToString(max))

UnchangedAllButGoto ==
    /\ UnchangedEngine /\ UnchangedDraft /\ UnchangedLoc /\ UnchangedStore
    /\ UnchangedResult /\ UnchangedPublish /\ UnchangedManager /\ UnchangedLogin
    /\ UnchangedRecorder /\ UnchangedGuard

\* Lines 230-232: every attempt failed (or none was due).
GotoThrows(call) ==
    gcall' = [call EXCEPT !.pc = "threw", !.error = retryable("NAVIGATION_TIMEOUT")]

\* Lines 213-220: the call starts; the first iteration records its step and
\* awaits page.goto.
GStart(url, retries) ==
    /\ gcall.pc \in {"idle", "returned", "threw"}
    /\ gcount < MaxGotoCalls
    /\ gcount' = gcount + 1
    /\ LET max  == maxAttempts(retries)
           call == [NoGotoCall EXCEPT !.url = url, !.retries = retries,
                                      !.maxAttempts = max,
                                      !.stepsBefore = Len(gtrace)]
       IN IF 1 <= max
          THEN /\ gcall' = [call EXCEPT !.pc = "navigating", !.attempt = 1]
               /\ gtrace' = Append(gtrace, GotoStep(url, 1, max))
          ELSE /\ GotoThrows(call)
               /\ UNCHANGED gtrace
    /\ UnchangedAllButGoto

\* Lines 219-228: page.goto resolved (return) or rejected; after a rejection the
\* next iteration starts at once, or the loop ends and the error is thrown.
GAttempt(ok) ==
    /\ gcall.pc = "navigating"
    /\ IF ok
       THEN /\ gcall' = [gcall EXCEPT !.pc = "returned"]
            /\ UNCHANGED gtrace
       ELSE LET call == [gcall EXCEPT !.failed = @ + 1]
            IN IF gcall.attempt + 1 <= gcall.maxAttempts
               THEN /\ gcall' = [call EXCEPT !.attempt = @ + 1]
                    /\ gtrace' = Append(gtrace,
                                        GotoStep(gcall.url, gcall.attempt + 1,
                                                 gcall.maxAttempts))
               ELSE /\ GotoThrows(call)
                    /\ UNCHANGED gtrace
    /\ UNCHANGED gcount
    /\ UnchangedAllButGoto

GotoInit ==
    /\ gcall = NoGotoCall
    /\ gtrace = <<>>
    /\ gcount = 0

InitGoto ==
    /\ EngineIdle /\ DraftIdle /\ LocIdle /\ StoreIdle /\ ResultIdle /\ PublishIdle
    /\ ManagerIdle /\ LoginIdle /\ RecorderIdle /\ GotoInit /\ GuardIdle

NextGoto ==
    \/ \E url \in GotoUrls, retries \in RetryCounts : GStart(url, retries)
    \/ \E ok \in BOOLEAN : GAttempt(ok)

SpecGoto == InitGoto /\ [][NextGoto]_vars

\* The goto steps the running (or last) call has recorded.
GotoStepsOfCall ==
    {i \in (gcall.stepsBefore + 1)..Len(gtrace) : gtrace[i].action = "goto"}

\* C31: gotoWithRetry makes at most max(1, retries + 1) attempts, one right
\* after the other with no delay, records one goto step per attempt, stops at
\* the first successful attempt, and throws a retryable NAVIGATION_TIMEOUT
\* exactly when every attempt failed.
C31_BoundedAttemptsNoDelay ==
    LET limit == IF gcall.retries + 1 >= 1 THEN gcall.retries + 1 ELSE 1
    IN gcall.pc # "idle" =>
          /\ gcall.attempt <= limit
          /\ gcall.waits = 0
          /\ Cardinality(GotoStepsOfCall) = gcall.attempt
          /\ Len(gtrace) = gcall.stepsBefore + gcall.attempt
          /\ (gcall.pc = "navigating" =>
                 gcall.attempt >= 1 /\ gcall.failed = gcall.attempt - 1)
          /\ (gcall.pc = "returned" =>
                 /\ gcall.attempt >= 1
                 /\ gcall.failed = gcall.attempt - 1
                 /\ gcall.error = NoError)
          /\ (gcall.pc = "threw" <=>
                 /\ gcall.pc \notin {"navigating", "returned"}
                 /\ gcall.attempt = limit
                 /\ gcall.failed = limit)
          /\ (gcall.pc = "threw" =>
                 /\ gcall.error.kind = "ToolError"
                 /\ gcall.error.status = "retryable_error"
                 /\ gcall.error.code = "NAVIGATION_TIMEOUT")

\* C31 witness: with retries = 2 the third attempt failed as well and the call
\* threw after three goto steps.
C31_Witness ==
    /\ gcall.pc = "threw"
    /\ gcall.retries = 2
    /\ gcall.failed = 3
    /\ Cardinality(GotoStepsOfCall) = 3


(***************************************************************************)
(* Codes and severities of the repository's own errors (specification Spec) *)
(***************************************************************************)
\* The ToolErrors thrown by the flows, the session manager and the handlers
\* (DraftFlow 107, 197, 216, 268, 300; ArticleFlow 148, 230, 259; LoginFlow 179,
\* 186, 270, 276; SessionManager 138, 295, 303, 387; ImageFlow 66, 75, 101, 115).
FlowToolErrors ==
    { fatal("VALIDATION_ERROR"), fatal("NOT_LOGGED_IN"), fatal("INTERNAL_ERROR"),
      fatal("SELECTOR_CHANGED"),
      retryable("NAVIGATION_TIMEOUT"), retryable("PUBLISH_FAILED"),
      retryable("IMAGE_UPLOAD_FAILED"),
      ToolError("need_user_action", "CAPTCHA_REQUIRED") }

\* What a call of the repository's tools can end with: an output of the handler,
\* a schema rejection, an unexpected Error, or one of the ToolErrors above.
FromRepository(err) == err \in FlowToolErrors \cup {NoError, ZodError, OtherError}

CodeMatchesSeverity(result) ==
    /\ result.code = "SELECTOR_CHANGED" => result.status = "fatal_error"
    /\ result.code = "NAVIGATION_TIMEOUT" => result.status = "retryable_error"
    /\ result.code = "CAPTCHA_REQUIRED" => result.status = "need_user_action"

\* C32: in every result produced from the repository's flows and helpers,
\* SELECTOR_CHANGED appears only with fatal_error, NAVIGATION_TIMEOUT only with
\* retryable_error, and CAPTCHA_REQUIRED only with need_user_action.
C32_CodeDeterminesSeverity ==
    /\ (ReturnedOne /\ FromRepository(ret.thrown)) => CodeMatchesSeverity(ret.result)
    /\ \A c \in Calls :
          (Built(c) /\ FromRepository(thrown[c])) => CodeMatchesSeverity(res[c])
    /\ \A err \in FlowToolErrors :
          CodeMatchesSeverity([status |-> err.status, code |-> err.code])

\* C32 witness: calls that threw the captcha error returned need_user_action /
\* CAPTCHA_REQUIRED.
C32_Witness ==
    /\ ReturnedOne
    /\ ret.thrown = ToolError("need_user_action", "CAPTCHA_REQUIRED")
    /\ ret.result.code = "CAPTCHA_REQUIRED"
    /\ ret.result.status = "need_user_action"


(***************************************************************************)
(* Further properties of createDraft (specification SpecDraft)             *)
(***************************************************************************)
\* d returned a draft it created itself.
Created(d) == Returned(d) /\ ~dloc[d].out.reused

\* d has written its record: the write of the index by d has finished.
Wrote(d) == \E i \in 1..Len(dobs.writes) : dobs.writes[i].call = d

\* C33: when two createDraft calls with different fingerprints overlap, the
\* index contains both records once both calls have completed: no save of one
\* call discards the record written by the other.
C33_OverlappingCallsKeepBothRecords ==
    \A d, e \in DraftCalls :
        ( /\ d # e
          /\ dobs.overlapped
          /\ Quiescent
          /\ Created(d) /\ Created(e)
          /\ dloc[d].hash # dloc[e].hash )
        => FileHolds(dloc[d].hash) /\ FileHolds(dloc[e].hash)

\* C34: two createDraft inputs share a fingerprint only if their titles are
\* equal and their contents are equal; inputs that differ, line breaks included,
\* never get reused = true from each other's record.
C34_FingerprintSeparatesInputs ==
    \A d, e \in DraftCalls :
        (d # e /\ SameFingerprint(d, e)) => SameTitleAndContent(d, e)

\* The steps at which createDraft fails before the wait and the index write.
FailedEarly(d) ==
    /\ dpc[d] = "failed"
    /\ dloc[d].err \in {"VALIDATION_ERROR", "NOT_LOGGED_IN", "NAVIGATION_TIMEOUT",
                        "SELECTOR_CHANGED"}

\* C35: the index holds a record for a fingerprint only if a createDraft call
\* for that fingerprint ran navigation, fill and save click and wrote the
\* record; a call that fails at the format check, the login check, the
\* navigation or a fill writes nothing, so a later call with the same inputs
\* finds no record of it and performs the side effect itself.
C35_RecordOnlyAfterCompletedSideEffect ==
    /\ \A r \in RecordsOnDisk :
          \E d \in DraftCalls :
              /\ r.createdAt = d
              /\ dloc[d].hash = r.hash
              /\ RanSideEffect(d)
              /\ Wrote(d)
    /\ \A d \in DraftCalls :
          FailedEarly(d) =>
              /\ ~Wrote(d)
              /\ \A r \in RecordsOnDisk : r.createdAt # d
    /\ \A e \in DraftCalls :
          (Returned(e) /\ dloc[e].out.reused) =>
              \E d \in DraftCalls :
                  /\ d # e
                  /\ dloc[d].hash = dloc[e].hash
                  /\ RanSideEffect(d) /\ Wrote(d)
    /\ \A d, e \in DraftCalls :
          ( /\ d < e /\ ~dobs.overlapped
            /\ FailedEarly(d) /\ Returned(e)
            /\ SameTitleAndContent(d, e)
            /\ \A f \in DraftCalls \ {d, e} : ~Wrote(f) )
          => ~dloc[e].out.reused /\ RanSideEffect(e)

\* C35 witness: the first call failed at a fill after navigating, the second
\* call with the same inputs ran the side effect and wrote the only record.
C35_Witness ==
    /\ ~dobs.overlapped
    /\ FailedEarly(1) /\ dloc[1].err = "SELECTOR_CHANGED"
    /\ Created(2)
    /\ SameTitleAndContent(1, 2)
    /\ RanSideEffect(2)
    /\ Cardinality(RecordsOnDisk) = 1

\* C36: when the editor URL after saving is still the new-draft URL, createDraft
\* returns 'draft_' followed by the head of the hash, so that records stored
\* under different fingerprints never carry the same draftId.
C36_FallbackDraftIdFromFingerprint ==
    /\ \A d \in DraftCalls :
          (Created(d) /\ dloc[d].out.editorUrl = NewDraftUrl)
             => dloc[d].out.draftId = "draft_" \o dloc[d].hash
    /\ \A r, q \in RecordsOnDisk :
          (r.hash # q.hash /\ r.editorUrl = NewDraftUrl /\ q.editorUrl = NewDraftUrl)
             => r.draftId # q.draftId


(***************************************************************************)
(* Failed init (specification SpecManager)                                 *)
(***************************************************************************)
\* isInitialized(), lines 151-153, on the manager's fields.
ManagerIsInitialized == mcontext.defined /\ msession.defined

\* C37: if init fails at any step the manager is left uninitialised:
\* isInitialized() is false afterwards and no browser context stays open.
C37_FailedInitLeavesUninitialised ==
    (mcall.op = "init" /\ mcall.pc = "threw") =>
        /\ ~ManagerIsInitialized
        /\ ~mcontext.defined


\* ======================================================================
\* The flows that start with requireLoggedIn: DraftFlow.createDraft and
\* publishDraft (src/flows/DraftFlow.ts), ArticleFlow.listMine
\* (src/flows/ArticleFlow.ts), ImageFlow.uploadImages, ProfileFlow.getSelf,
\* and LoginFlow.requireLoggedIn (src/flows/LoginFlow.ts, lines 177-190)
\* ======================================================================

MaxFlowCalls == 2

GuardedFlows == {"createDraft", "publishDraft", "uploadImages", "listMine", "getSelf"}

\* The session a call meets.
SessionStates == {"uninitialised", "loggedOut", "loggedIn"}

\* Inputs: the format (createDraft only) and the fingerprint of title and content.
FlowInputs == [format : {None, "markdown", "richtext"}, fingerprint : {"h1", "h2"}]

NoFlowCall ==
    [op |-> None, pc |-> "idle", input |-> [format |-> None, fingerprint |-> None],
     sess |-> None, passed |-> FALSE, pageOps |-> <<>>, reads |-> 0,
     reused |-> FALSE, err |-> NoError, indexBefore |-> {}]

\* createDraft as a variant that looks the record up before the login check.
firstAwaitLookupFirst(op) == IF op = "createDraft" THEN "lookup" ELSE "requireLoggedIn"

\* What each flow awaits first: requireLoggedIn (DraftFlow 113 and 167,
\* ArticleFlow 76, ImageFlow 38, ProfileFlow 24).
firstAwait(op) == "requireLoggedIn"

\* The flows that read the idempotency index once logged in: createDraft
\* (loadIdempotencyRecord, line 116) and publishDraft (findEditorUrlByDraftId,
\* line 170).
ReadsIndex(op) == op \in {"createDraft", "publishDraft"}

FlowThrows(call, err) == fcall' = [call EXCEPT !.pc = "failed", !.err = err]

UnchangedAllButGuard ==
    /\ UnchangedEngine /\ UnchangedDraft /\ UnchangedLoc /\ UnchangedStore
    /\ UnchangedResult /\ UnchangedPublish /\ UnchangedManager /\ UnchangedLogin
    /\ UnchangedRecorder /\ UnchangedGoto

\* The call starts; createDraft rejects a format other than markdown at once
\* (DraftFlow 106-111), every flow then awaits requireLoggedIn.
FStart(op, input, sess) ==
    /\ fcall.pc \in {"idle", "returned", "failed"}
    /\ fcount < MaxFlowCalls
    /\ fcount' = fcount + 1
    /\ LET call == [NoFlowCall EXCEPT !.op = op, !.input = input, !.sess = sess,
                                      !.indexBefore = findex]
       IN IF op = "createDraft" /\ input.format # None /\ input.format # "markdown"
          THEN FlowThrows(call, fatal("VALIDATION_ERROR"))
          ELSE fcall' = [call EXCEPT !.pc = firstAwait(op)]
    /\ UNCHANGED findex
    /\ UnchangedAllButGuard

\* requireLoggedIn, lines 178-183: uninitialised throws; else getPage and
\* isLoggedIn are awaited.
FRequire ==
    /\ fcall.pc = "requireLoggedIn"
    /\ IF fcall.sess = "uninitialised"
       THEN FlowThrows(fcall, fatal("NOT_LOGGED_IN"))
       ELSE fcall' = [fcall EXCEPT !.pc = "isLoggedIn"]
    /\ UNCHANGED <<findex, fcount>>
    /\ UnchangedAllButGuard

\* requireLoggedIn, lines 183-189: not logged in throws; else readCurrentUser
\* (a page.evaluate) gives the user and the flow goes on.
FIsLoggedIn ==
    /\ fcall.pc = "isLoggedIn"
    /\ IF fcall.sess # "loggedIn"
       THEN FlowThrows(fcall, fatal("NOT_LOGGED_IN"))
       ELSE fcall' = [fcall EXCEPT !.passed = TRUE,
                                   !.pc = IF ReadsIndex(fcall.op) THEN "lookup" ELSE "goto"]
    /\ UNCHANGED <<findex, fcount>>
    /\ UnchangedAllButGuard

\* The index is read: createDraft returns a record found as reused (DraftFlow
\* 116-124); publishDraft takes the editor URL from it (170-171).
FLookup ==
    /\ fcall.pc = "lookup"
    /\ LET call == [fcall EXCEPT !.reads = @ + 1]
       IN IF fcall.op = "createDraft" /\ fcall.input.fingerprint \in findex
          THEN fcall' = [call EXCEPT !.pc = "returned", !.reused = TRUE]
          ELSE fcall' = [call EXCEPT !.pc = "goto"]
    /\ UNCHANGED <<findex, fcount>>
    /\ UnchangedAllButGuard

\* gotoWithRetry of the flow (DraftFlow 127-133 and 173-179, ArticleFlow 81-87,
\* ImageFlow 45-51, ProfileFlow 27-33).
FGoto(ok) ==
    /\ fcall.pc = "goto"
    /\ LET call == [fcall EXCEPT !.pageOps = Append(@, "goto")]
       IN IF ok
          THEN fcall' = [call EXCEPT !.pc = "work"]
          ELSE FlowThrows(call, retryable("NAVIGATION_TIMEOUT"))
    /\ UNCHANGED <<findex, fcount>>
    /\ UnchangedAllButGuard

\* What the flow does on the page after the navigation.
WorkOps(op) ==
    CASE op = "createDraft"  -> <<"fill", "fill", "click">>
      [] op = "publishDraft" -> <<"click", "click">>
      [] op = "uploadImages" -> <<"setInputFiles">>
      [] op = "listMine"     -> <<"evaluate">>
      [] op = "getSelf"      -> <<"evaluate">>

\* How the flow fails on the page.
WorkError(op) ==
    CASE op = "createDraft"  -> fatal("SELECTOR_CHANGED")
      [] op = "publishDraft" -> retryable("PUBLISH_FAILED")
      [] op = "uploadImages" -> fatal("SELECTOR_CHANGED")
      [] op = "listMine"     -> OtherError
      [] op = "getSelf"      -> OtherError

\* The rest of the flow: its fills, clicks and evaluations; createDraft saves
\* its record at the end (DraftFlow 150-154).
FWork(ok) ==
    /\ fcall.pc = "work"
    /\ IF ok
       THEN /\ fcall' = [fcall EXCEPT !.pc = "returned",
                                      !.pageOps = @ \o WorkOps(fcall.op)]
            /\ findex' = IF fcall.op = "createDraft"
                         THEN findex \cup {fcall.input.fingerprint}
                         ELSE findex
       ELSE /\ FlowThrows([fcall EXCEPT !.pageOps = Append(@, WorkOps(fcall.op)[1])],
                          WorkError(fcall.op))
            /\ UNCHANGED findex
    /\ UNCHANGED fcount
    /\ UnchangedAllButGuard

GuardInit ==
    /\ fcall = NoFlowCall
    /\ findex \in {{}, {"h1"}}
    /\ fcount = 0

InitGuard ==
    /\ EngineIdle /\ DraftIdle /\ LocIdle /\ StoreIdle /\ ResultIdle /\ PublishIdle
    /\ ManagerIdle /\ LoginIdle /\ RecorderIdle /\ GotoIdle /\ GuardInit

NextGuard ==
    \/ \E op \in GuardedFlows, input \in FlowInputs, sess \in SessionStates :
          FStart(op, input, sess)
    \/ FRequire
    \/ FIsLoggedIn
    \/ FLookup
    \/ \E ok \in BOOLEAN : FGoto(ok)
    \/ \E ok \in BOOLEAN : FWork(ok)

SpecGuard == InitGuard /\ [][NextGuard]_vars

FlowAtRest == fcall.pc \in {"returned", "failed"}

\* createDraft turned the input down at its format check.
FormatRejected ==
    /\ fcall.op = "createDraft"
    /\ fcall.input.format \notin {None, "markdown"}

LeftUntouched ==
    /\ fcall.pageOps = <<>>
    /\ fcall.reads = 0
    /\ findex = fcall.indexBefore

\* C38 as stated: no navigation, fill or click unless requireLoggedIn has
\* succeeded earlier in the same call; with an uninitialised or logged-out
\* session each flow fails with a fatal NOT_LOGGED_IN error and leaves the index
\* unchanged, even when a record for the same inputs exists.
C38_NotLoggedInAlwaysReported ==
    /\ fcall.pageOps # <<>> => fcall.passed
    /\ (FlowAtRest /\ fcall.sess # "loggedIn") =>
          /\ fcall.pc = "failed"
          /\ fcall.err = fatal("NOT_LOGGED_IN")
          /\ LeftUntouched

\* C38, amended: as above, except that createDraft rejects a format other than
\* markdown with a fatal VALIDATION_ERROR before it consults the session; that
\* call, too, touches neither the page nor the index.
C38_LoginBeforePageAndIndex ==
    /\ fcall.pageOps # <<>> => fcall.passed
    /\ fcall.reads > 0 => fcall.passed
    /\ (fcall.op # None /\ findex # fcall.indexBefore) => fcall.passed
    /\ (FlowAtRest /\ fcall.sess # "loggedIn" /\ ~FormatRejected) =>
          /\ fcall.pc = "failed"
          /\ fcall.err = fatal("NOT_LOGGED_IN")
          /\ LeftUntouched
    /\ (FlowAtRest /\ FormatRejected) =>
          /\ fcall.pc = "failed"
          /\ fcall.err = fatal("VALIDATION_ERROR")
          /\ LeftUntouched

\* C38 witness: createDraft for an input whose record is in the index failed
\* with NOT_LOGGED_IN on a logged-out session, the index as it was.
C38_Witness ==
    /\ fcall.op = "createDraft"
    /\ fcall.sess = "loggedOut"
    /\ fcall.input.fingerprint \in fcall.indexBefore
    /\ fcall.pc = "failed"
    /\ fcall.err = fatal("NOT_LOGGED_IN")
    /\ LeftUntouched


\* ======================================================================
\* runTool and the TraceStore: the record kept for a returned call
\* (src/shared/toolRunner.ts, lines 134-136 and 180-196)
\* ======================================================================

SameOutcome(r, result) ==
    /\ r.status = result.status
    /\ r.code = result.code
    /\ r.message = result.message

\* C39: after runTool returns, the record stored in the TraceStore under the
\* result's traceId has the same status, code and message as the returned
\* result, and its traceId is different from that of every other call.
C39_StoredRecordMatchesResult ==
    /\ ReturnedOne =>
          /\ getByTraceId(traces, ret.result.traceId) # NoRecord
          /\ getByTraceId(traces, ret.result.traceId).traceId = ret.result.traceId
          /\ SameOutcome(getByTraceId(traces, ret.result.traceId), ret.result)
          /\ \A c \in Calls \ {ret.call} :
                rec[c] # NoRecorder => rec[c].data.traceId # ret.result.traceId
    /\ \A i, j \in 1..Len(traces) : i # j => traces[i].traceId # traces[j].traceId
    /\ \A c, d \in Calls :
          (c # d /\ Built(c) /\ Built(d)) => res[c].traceId # res[d].traceId

\* C39 witness: two calls with different outcomes have returned; the store
\* holds a record for each, the later one's under the returned traceId.
C39_Witness ==
    /\ ReturnedOne
    /\ Len(traces) = 2
    /\ traces[1].status # traces[2].status
    /\ ret.result.status = "need_user_action"
    /\ SameOutcome(getByTraceId(traces, ret.result.traceId), ret.result)


\* ======================================================================
\* The records complete returns and the recorder they came from
\* (TraceRecorder.snapshot and complete, TraceStore.save and getByTraceId)
\* ======================================================================

\* What a handed record holds now: a live one is recordData itself; a snapshot
\* has its own fields and the array its steps field points at.
HeldNow(h) ==
    IF h.live THEN trec.data
    ELSE [h.data EXCEPT !.steps = thist.arrays[h.stepsRef]]

\* C40: a TraceRecord handed to the TraceStore is not changed by anything the
\* recorder does afterwards: later record or complete calls leave its list of
\* steps and its status, code and message as they were when it was handed over.
C40_HandedRecordIsNotChangedLater ==
    \A i \in 1..Len(thist.handed) :
        /\ HeldNow(thist.handed[i]).steps = thist.handed[i].data.steps
        /\ HeldNow(thist.handed[i]).status = thist.handed[i].data.status
        /\ HeldNow(thist.handed[i]).code = thist.handed[i].data.code
        /\ HeldNow(thist.handed[i]).message = thist.handed[i].data.message

\* C40 witness: after a record was handed over, the recorder recorded a further
\* step and completed again with another outcome; the first record is as it was.
C40_Witness ==
    /\ Len(thist.handed) = 2
    /\ tcall.op = "record"
    /\ Len(trec.data.steps) > Len(thist.handed[2].data.steps)
    /\ Len(thist.handed[2].data.steps) > Len(thist.handed[1].data.steps)
    /\ trec.data.status # thist.handed[1].data.status
    /\ HeldNow(thist.handed[1]) = thist.handed[1].data

====
